---------------------------- MODULE Spec2Model ----------------------------
(***************************************************************************)
(* Model of the memory simulator of codeanatomy                            *)
(* (src/utils/MemoryManager.ts): a bounded virtual stack of frames and a   *)
(* bump-allocated heap of blocks.  Every public mutator of the class is    *)
(* one action; the read-only methods are operators over the state.         *)
(***************************************************************************)
EXTENDS Integers, Sequences, FiniteSets, TLC

(***************************************************************************)
(* Inputs of the calls and bounds of the model.                            *)
(***************************************************************************)
FunctionNames == {"main", "f"}
StackSizeArgs == {4096, 8192}
HeapSizeArgs == {0, 64, 65536}
VarNames == {"x", "y"}
VarValues == {1, 2}
VarTypes == {"int"}
MaxBlocks == 3

(***************************************************************************)
(* The fields of MemoryManager.  stackSize and heapSize are assigned once, *)
(* in the field initialisers, and never written again.                     *)
(***************************************************************************)
stackSize == 8192
heapSize == 65536

VARIABLES
    stackFrames,          \* StackFrame[]: sequence of frames, top is last
    heapBlocks,           \* HeapBlock[]: sequence of blocks in allocation order
    currentStackPointer,
    currentHeapPointer,
    op,                   \* the name of the last method called
    result                \* what that call returned or threw

vars == <<stackFrames, heapBlocks, currentStackPointer, currentHeapPointer,
          op, result>>

state == <<stackFrames, heapBlocks, currentStackPointer, currentHeapPointer>>

(***************************************************************************)
(* The outcome of a call: a returned boolean, a returned number, no value  *)
(* (void), or a thrown Error with its message.                             *)
(***************************************************************************)
ReturnVoid == [threw |-> FALSE, message |-> "", kind |-> "void",
               bool |-> FALSE, num |-> -1]

ReturnBool(b) == [threw |-> FALSE, message |-> "", kind |-> "boolean",
                  bool |-> b, num |-> -1]

ReturnNumber(n) == [threw |-> FALSE, message |-> "", kind |-> "number",
                    bool |-> FALSE, num |-> n]

Throw(msg) == [threw |-> TRUE, message |-> msg, kind |-> "error",
               bool |-> FALSE, num |-> -1]

(***************************************************************************)
(* new Map(): the empty variable map of a fresh frame.                     *)
(***************************************************************************)
EmptyMap == [n \in {} |-> [value |-> 0, type |-> ""]]

\* Map.set(name, binding)
MapSet(m, name, binding) ==
    [n \in (DOMAIN m) \cup {name} |-> IF n = name THEN binding ELSE m[n]]

(***************************************************************************)
(* constructor(): the field initialisers, then reset().                    *)
(***************************************************************************)
Init ==
    /\ stackFrames = << >>
    /\ heapBlocks = << >>
    /\ currentStackPointer = 0
    /\ currentHeapPointer = 0
    /\ op = "constructor"
    /\ result = ReturnVoid

\* reset() that leaves the heap pointer where it is.
reset_KeepsHeapPointer ==
    /\ stackFrames' = << >>
    /\ heapBlocks' = << >>
    /\ currentStackPointer' = 0
    /\ op' = "reset"
    /\ result' = ReturnVoid
    /\ UNCHANGED currentHeapPointer

reset ==
    /\ stackFrames' = << >>
    /\ heapBlocks' = << >>
    /\ currentStackPointer' = 0
    /\ currentHeapPointer' = 0
    /\ op' = "reset"
    /\ result' = ReturnVoid

\* allocateStack with the frame pushed before the capacity check.
allocateStack_PushBeforeCheck(functionName, size) ==
    /\ op' = "allocateStack"
    /\ stackFrames' = Append(stackFrames,
                        [name |-> functionName,
                         size |-> size,
                         variables |-> EmptyMap,
                         startAddress |-> currentStackPointer])
    /\ currentStackPointer' = currentStackPointer + size
    /\ result' = IF currentStackPointer + size > stackSize
                 THEN Throw("Stack overflow")
                 ELSE ReturnBool(TRUE)
    /\ UNCHANGED <<heapBlocks, currentHeapPointer>>

allocateStack(functionName, size) ==
    /\ op' = "allocateStack"
    /\ IF currentStackPointer + size > stackSize
       THEN /\ result' = Throw("Stack overflow")
            /\ UNCHANGED state
       ELSE /\ stackFrames' = Append(stackFrames,
                                [name |-> functionName,
                                 size |-> size,
                                 variables |-> EmptyMap,
                                 startAddress |-> currentStackPointer])
            /\ currentStackPointer' = currentStackPointer + size
            /\ result' = ReturnBool(TRUE)
            /\ UNCHANGED <<heapBlocks, currentHeapPointer>>

\* deallocateStack without the stack pointer update.
deallocateStack_KeepsPointer ==
    /\ op' = "deallocateStack"
    /\ IF Len(stackFrames) = 0
       THEN /\ result' = ReturnBool(FALSE)
            /\ UNCHANGED state
       ELSE /\ stackFrames' = SubSeq(stackFrames, 1, Len(stackFrames) - 1)
            /\ result' = ReturnBool(TRUE)
            /\ UNCHANGED <<heapBlocks, currentStackPointer,
                           currentHeapPointer>>

\* deallocateStack with shift() for pop(): the oldest frame goes.
deallocateStack_Shift ==
    /\ op' = "deallocateStack"
    /\ IF Len(stackFrames) = 0
       THEN /\ result' = ReturnBool(FALSE)
            /\ UNCHANGED state
       ELSE /\ stackFrames' = Tail(stackFrames)
            /\ currentStackPointer' =
                   currentStackPointer - Head(stackFrames).size
            /\ result' = ReturnBool(TRUE)
            /\ UNCHANGED <<heapBlocks, currentHeapPointer>>

deallocateStack ==
    /\ op' = "deallocateStack"
    /\ IF Len(stackFrames) = 0
       THEN /\ result' = ReturnBool(FALSE)
            /\ UNCHANGED state
       ELSE /\ stackFrames' = SubSeq(stackFrames, 1, Len(stackFrames) - 1)
            /\ currentStackPointer' =
                   currentStackPointer - stackFrames[Len(stackFrames)].size
            /\ result' = ReturnBool(TRUE)
            /\ UNCHANGED <<heapBlocks, currentHeapPointer>>

\* allocateHeap with >= for > in the capacity check.
allocateHeap_OffByOne(size) ==
    /\ op' = "allocateHeap"
    /\ IF currentHeapPointer + size >= heapSize
       THEN /\ result' = Throw("Heap overflow")
            /\ UNCHANGED state
       ELSE /\ heapBlocks' = Append(heapBlocks,
                               [address |-> currentHeapPointer,
                                size |-> size,
                                allocated |-> TRUE,
                                data |-> "null"])
            /\ currentHeapPointer' = currentHeapPointer + size
            /\ result' = ReturnNumber(currentHeapPointer)
            /\ UNCHANGED <<stackFrames, currentStackPointer>>

allocateHeap(size) ==
    /\ op' = "allocateHeap"
    /\ IF currentHeapPointer + size > heapSize
       THEN /\ result' = Throw("Heap overflow")
            /\ UNCHANGED state
       ELSE /\ heapBlocks' = Append(heapBlocks,
                               [address |-> currentHeapPointer,
                                size |-> size,
                                allocated |-> TRUE,
                                data |-> "null"])
            /\ currentHeapPointer' = currentHeapPointer + size
            /\ result' = ReturnNumber(currentHeapPointer)
            /\ UNCHANGED <<stackFrames, currentStackPointer>>

\* Array.prototype.findIndex(block => block.address === address): the
\* smallest index whose block has the address, 0 standing for -1.
findIndex(blocks, address) ==
    IF \E i \in 1..Len(blocks) : blocks[i].address = address
    THEN CHOOSE i \in 1..Len(blocks) :
             /\ blocks[i].address = address
             /\ \A j \in 1..(i - 1) : blocks[j].address # address
    ELSE 0

\* deallocateHeap returning false for an unknown address in place of the
\* throw.
deallocateHeap_SilentOnUnknown(address) ==
    /\ op' = "deallocateHeap"
    /\ LET blockIndex == findIndex(heapBlocks, address)
       IN  IF blockIndex = 0
           THEN /\ result' = ReturnBool(FALSE)
                /\ UNCHANGED state
           ELSE /\ heapBlocks' =
                       [heapBlocks EXCEPT ![blockIndex].allocated = FALSE]
                /\ result' = ReturnBool(TRUE)
                /\ UNCHANGED <<stackFrames, currentStackPointer,
                               currentHeapPointer>>

\* deallocateHeap that finds the block and leaves its flag set.
deallocateHeap_KeepsFlag(address) ==
    /\ op' = "deallocateHeap"
    /\ LET blockIndex == findIndex(heapBlocks, address)
       IN  IF blockIndex = 0
           THEN /\ result' = Throw("Invalid heap address")
                /\ UNCHANGED state
           ELSE /\ result' = ReturnBool(TRUE)
                /\ UNCHANGED state

\* deallocateHeap that rejects the address of a block already freed.
deallocateHeap_RejectsFreed(address) ==
    /\ op' = "deallocateHeap"
    /\ LET blockIndex == findIndex(heapBlocks, address)
       IN  IF blockIndex = 0 \/ ~heapBlocks[blockIndex].allocated
           THEN /\ result' = Throw("Invalid heap address")
                /\ UNCHANGED state
           ELSE /\ heapBlocks' =
                       [heapBlocks EXCEPT ![blockIndex].allocated = FALSE]
                /\ result' = ReturnBool(TRUE)
                /\ UNCHANGED <<stackFrames, currentStackPointer,
                               currentHeapPointer>>

deallocateHeap(address) ==
    /\ op' = "deallocateHeap"
    /\ LET blockIndex == findIndex(heapBlocks, address)
       IN  IF blockIndex = 0
           THEN /\ result' = Throw("Invalid heap address")
                /\ UNCHANGED state
           ELSE /\ heapBlocks' =
                       [heapBlocks EXCEPT ![blockIndex].allocated = FALSE]
                /\ result' = ReturnBool(TRUE)
                /\ UNCHANGED <<stackFrames, currentStackPointer,
                               currentHeapPointer>>

\* setVariable writing to stackFrames[0], the outermost frame.
setVariable_BottomFrame(name, value, type) ==
    /\ op' = "setVariable"
    /\ IF Len(stackFrames) = 0
       THEN /\ result' = ReturnBool(FALSE)
            /\ UNCHANGED state
       ELSE /\ stackFrames' =
                   [stackFrames EXCEPT ![1].variables =
                       MapSet(@, name, [value |-> value, type |-> type])]
            /\ result' = ReturnBool(TRUE)
            /\ UNCHANGED <<heapBlocks, currentStackPointer,
                           currentHeapPointer>>

setVariable(name, value, type) ==
    /\ op' = "setVariable"
    /\ IF Len(stackFrames) = 0
       THEN /\ result' = ReturnBool(FALSE)
            /\ UNCHANGED state
       ELSE /\ stackFrames' =
                   [stackFrames EXCEPT ![Len(stackFrames)].variables =
                       MapSet(@, name, [value |-> value, type |-> type])]
            /\ result' = ReturnBool(TRUE)
            /\ UNCHANGED <<heapBlocks, currentStackPointer,
                           currentHeapPointer>>

(***************************************************************************)
(* getVariable(name): the loop from the top frame down; NotFound is null.  *)
(***************************************************************************)
NotFound == [value |-> 0, type |-> "null"]

RECURSIVE getVariableFrom(_, _, _)
getVariableFrom(frames, i, name) ==
    IF i < 1 THEN NotFound
    ELSE IF name \in DOMAIN frames[i].variables
         THEN frames[i].variables[name]
         ELSE getVariableFrom(frames, i - 1, name)

\* getVariable with the loop running from the outermost frame up.
RECURSIVE getVariableUp(_, _, _)
getVariableUp(frames, i, name) ==
    IF i > Len(frames) THEN NotFound
    ELSE IF name \in DOMAIN frames[i].variables
         THEN frames[i].variables[name]
         ELSE getVariableUp(frames, i + 1, name)

getVariable_OutermostFirst(name) == getVariableUp(stackFrames, 1, name)

getVariable(name) == getVariableFrom(stackFrames, Len(stackFrames), name)

(***************************************************************************)
(* getMemoryInfo(): filter, reduce and length over the block array.        *)
(***************************************************************************)
RECURSIVE filterAllocated(_)
filterAllocated(blocks) ==
    IF blocks = << >> THEN << >>
    ELSE IF Head(blocks).allocated
         THEN <<Head(blocks)>> \o filterAllocated(Tail(blocks))
         ELSE filterAllocated(Tail(blocks))

RECURSIVE reduceSize(_, _)
reduceSize(blocks, total) ==
    IF blocks = << >> THEN total
    ELSE reduceSize(Tail(blocks), total + Head(blocks).size)

\* getMemoryInfo reporting the heap pointer as heapUsed, as getMemoryLayout
\* does.
getMemoryInfo_HeapUsedIsPointer ==
    [stackUsed |-> currentStackPointer,
     stackTotal |-> stackSize,
     heapUsed |-> currentHeapPointer,
     heapTotal |-> heapSize,
     activeFrames |-> Len(stackFrames),
     leaks |-> Len(filterAllocated(heapBlocks))]

getMemoryInfo ==
    [stackUsed |-> currentStackPointer,
     stackTotal |-> stackSize,
     heapUsed |-> reduceSize(filterAllocated(heapBlocks), 0),
     heapTotal |-> heapSize,
     activeFrames |-> Len(stackFrames),
     leaks |-> Len(filterAllocated(heapBlocks))]

detectMemoryLeaks == filterAllocated(heapBlocks)

(***************************************************************************)
(* The addresses a caller can pass to deallocateHeap: every address a      *)
(* block can have, and one that no block has.                              *)
(***************************************************************************)
AddressArgs ==
    {b.address : b \in {heapBlocks[i] : i \in 1..Len(heapBlocks)}}
        \cup {0, 12345}

Next ==
    \/ reset
    \/ \E n \in FunctionNames, s \in StackSizeArgs : allocateStack(n, s)
    \/ deallocateStack
    \/ \E s \in HeapSizeArgs :
           /\ Len(heapBlocks) < MaxBlocks
           /\ allocateHeap(s)
    \/ \E a \in AddressArgs : deallocateHeap(a)
    \/ \E n \in VarNames, v \in VarValues, t \in VarTypes : setVariable(n, v, t)

(***************************************************************************)
(* The object a getMemoryInfo() call returned, NoInfo when the last call   *)
(* was another one.                                                        *)
(***************************************************************************)
VARIABLES info

NoInfo ==
    [stackUsed |-> -1, stackTotal |-> -1, heapUsed |-> -1, heapTotal |-> -1,
     activeFrames |-> -1, leaks |-> -1]

ReturnObject == [threw |-> FALSE, message |-> "", kind |-> "object",
                 bool |-> FALSE, num |-> -1]

(***************************************************************************)
(* The analysis classes (CParser, CodeExplainer, AdvancedCodeExplainer)    *)
(* are functions of the text they are given: code is the input, call the   *)
(* method applied to it and out what the method returned.  The simulator   *)
(* does not touch them.                                                    *)
(***************************************************************************)
VARIABLES code, call, out

analysisVars == <<code, call, out>>

allVars == <<vars, info, analysisVars>>

NoAnalysis ==
    /\ code = << >>
    /\ call = "none"
    /\ out = << >>

MemoryInit == Init /\ info = NoInfo /\ NoAnalysis

MemoryNext == Next /\ UNCHANGED <<info, analysisVars>>

Spec == MemoryInit /\ [][MemoryNext]_allVars

\* getMemoryInfo() writing the filtered array back to this.heapBlocks.
getMemoryInfoCall_DropsFreedBlocks ==
    /\ op' = "getMemoryInfo"
    /\ result' = ReturnObject
    /\ info' = getMemoryInfo
    /\ heapBlocks' = filterAllocated(heapBlocks)
    /\ UNCHANGED <<stackFrames, currentStackPointer, currentHeapPointer>>

\* A call of getMemoryInfo(): only locals are assigned, the object is
\* built from the fields and returned.
getMemoryInfoCall ==
    /\ op' = "getMemoryInfo"
    /\ result' = ReturnObject
    /\ info' = getMemoryInfo
    /\ UNCHANGED state

SnapshotNext ==
    \/ Next /\ info' = NoInfo /\ UNCHANGED analysisVars
    \/ getMemoryInfoCall /\ UNCHANGED analysisVars

\* The simulator with getMemoryInfo() among the calls.
SpecSnapshot == MemoryInit /\ [][SnapshotNext]_allVars

(***************************************************************************)
(* Helpers of the properties, written independently of the methods above.  *)
(***************************************************************************)
RECURSIVE SumOfFrameSizes(_)
SumOfFrameSizes(frames) ==
    IF frames = << >> THEN 0
    ELSE frames[Len(frames)].size
             + SumOfFrameSizes(SubSeq(frames, 1, Len(frames) - 1))

AllButTop(frames) == SubSeq(frames, 1, Len(frames) - 1)

Snapshot == getMemoryInfo

\* C1: allocateStack(name, size) throws 'Stack overflow' exactly when
\* stackUsed + size > stackCapacity (8192); a rejected call pushes no frame
\* and leaves stackUsed, activeFrames and the heap as they were; an accepted
\* call pushes exactly one frame on top and returns true.
C1_AllocateStackRejectsAtomically ==
    [][\A n \in FunctionNames, s \in StackSizeArgs :
         allocateStack(n, s) =>
           IF Snapshot.stackUsed + s > 8192
           THEN /\ result'.threw
                /\ result'.message = "Stack overflow"
                /\ stackFrames' = stackFrames
                /\ Snapshot'.stackUsed = Snapshot.stackUsed
                /\ Snapshot'.activeFrames = Snapshot.activeFrames
                /\ heapBlocks' = heapBlocks
                /\ currentHeapPointer' = currentHeapPointer
                /\ Snapshot' = Snapshot
           ELSE /\ ~result'.threw
                /\ result' = ReturnBool(TRUE)
                /\ Len(stackFrames') = Len(stackFrames) + 1
                /\ AllButTop(stackFrames') = stackFrames
                /\ stackFrames'[Len(stackFrames')].name = n
                /\ stackFrames'[Len(stackFrames')].size = s
                /\ Snapshot'.activeFrames = Snapshot.activeFrames + 1
      ]_vars

\* C1 witness: a call was rejected with a stack overflow while a frame was
\* on the stack.
C1_Witness ==
    /\ op = "allocateStack"
    /\ result.threw
    /\ result.message = "Stack overflow"
    /\ Len(stackFrames) >= 1
    /\ currentStackPointer > 0

\* C2: in every reachable state stackUsed equals the sum of the sizes of the
\* frames on the stack and does not exceed stackCapacity.
C2_StackPointerIsSumOfFrames ==
    /\ Snapshot.stackUsed = SumOfFrameSizes(stackFrames)
    /\ Snapshot.stackUsed <= Snapshot.stackTotal
    /\ Snapshot.stackTotal = 8192

\* C2 witness: a frame was popped from a stack of two, one frame remains.
C2_Witness ==
    /\ op = "deallocateStack"
    /\ result.bool
    /\ Len(stackFrames) = 1
    /\ currentStackPointer = 4096

\* What deallocateStack does to the stack (C3, first sentence): on a
\* non-empty stack the top frame goes, the others stay in order, stackUsed
\* drops by the size of the removed frame and the call returns true; on an
\* empty stack it returns false and nothing changes.
C3_PopEffect ==
    deallocateStack =>
        IF Len(stackFrames) > 0
        THEN /\ stackFrames' = AllButTop(stackFrames)
             /\ Snapshot'.stackUsed =
                    Snapshot.stackUsed - stackFrames[Len(stackFrames)].size
             /\ result' = ReturnBool(TRUE)
             /\ heapBlocks' = heapBlocks
             /\ currentHeapPointer' = currentHeapPointer
        ELSE /\ result' = ReturnBool(FALSE)
             /\ state' = state

\* A step that leaves fewer frames on the stack removed the top frame only.
C3_OnlyTopRemoved ==
    Len(stackFrames') < Len(stackFrames) =>
        stackFrames' = AllButTop(stackFrames)

\* C3 as stated: deallocateStack pops the most recently pushed frame, and
\* no operation removes a frame other than the top one.
C3_Original_NoOperationRemovesBelowTop ==
    [][C3_PopEffect /\ C3_OnlyTopRemoved]_vars

\* C3 amended: deallocateStack pops the most recently pushed frame, and no
\* operation other than reset removes a frame other than the top one; reset
\* removes every frame.
C3_OnlyResetRemovesBelowTop ==
    [][/\ C3_PopEffect
       /\ (op' # "reset" => C3_OnlyTopRemoved)
       /\ (op' = "reset" => stackFrames' = << >>)
      ]_vars

\* C3 witness: a pop from a stack of two frames that differ left the lower
\* frame.
C3_Witness ==
    /\ op = "deallocateStack"
    /\ result.bool
    /\ Len(stackFrames) = 1
    /\ stackFrames[1].name = "main"
    /\ DOMAIN stackFrames[1].variables = {"x"}

\* C4: allocateHeap(size) throws 'Heap overflow' exactly when the heap
\* pointer plus size exceeds the heap capacity (65536), and then leaves no
\* block behind and changes neither the heap pointer nor the snapshot;
\* otherwise it appends one block, allocated, at the heap pointer (the next
\* free address) and returns that address.
C4_AllocateHeapAppendsOrRejects ==
    [][\A s \in HeapSizeArgs :
         allocateHeap(s) =>
           IF currentHeapPointer + s > 65536
           THEN /\ result'.threw
                /\ result'.message = "Heap overflow"
                /\ heapBlocks' = heapBlocks
                /\ currentHeapPointer' = currentHeapPointer
                /\ Snapshot' = Snapshot
                /\ stackFrames' = stackFrames
           ELSE /\ ~result'.threw
                /\ result'.kind = "number"
                /\ result'.num = currentHeapPointer
                /\ Len(heapBlocks') = Len(heapBlocks) + 1
                /\ SubSeq(heapBlocks', 1, Len(heapBlocks)) = heapBlocks
                /\ heapBlocks'[Len(heapBlocks')].address = currentHeapPointer
                /\ heapBlocks'[Len(heapBlocks')].size = s
                /\ heapBlocks'[Len(heapBlocks')].allocated
                /\ currentHeapPointer' = currentHeapPointer + s
                /\ stackFrames' = stackFrames
                /\ currentStackPointer' = currentStackPointer
      ]_vars

\* C4 witness: an allocation was rejected with a heap overflow while a block
\* was on the heap.
C4_Witness ==
    /\ op = "allocateHeap"
    /\ result.threw
    /\ result.message = "Heap overflow"
    /\ Len(heapBlocks) >= 1
    /\ currentHeapPointer > 0


AddressesOf(blocks) == {blocks[i].address : i \in 1..Len(blocks)}

AllocatedIndices(blocks) == {i \in 1..Len(blocks) : blocks[i].allocated}

RECURSIVE SumOfBlockSizes(_, _)
SumOfBlockSizes(blocks, indices) ==
    IF indices = {} THEN 0
    ELSE LET i == CHOOSE j \in indices : TRUE
         IN  blocks[i].size + SumOfBlockSizes(blocks, indices \ {i})

\* C5 as stated: the address a successful allocateHeap returns is not the
\* address of any block the instance already has, allocated or freed, and
\* the heap pointer does not go down across allocations.
C5_Original_FreshAddressNeverReused ==
    [][\A s \in HeapSizeArgs :
         (allocateHeap(s) /\ ~result'.threw) =>
             /\ result'.num \notin AddressesOf(heapBlocks)
             /\ currentHeapPointer' >= currentHeapPointer
      ]_vars

\* C6: the leak count of the snapshot is the number of blocks whose
\* allocated flag is true, the blocks detectMemoryLeaks lists; after
\* deallocateHeap(allocateHeap(size)) as the only allocation of the instance
\* the leak count is 0.
C6_LeaksCountAllocatedBlocks ==
    /\ Snapshot.leaks = Cardinality(AllocatedIndices(heapBlocks))
    /\ Len(detectMemoryLeaks) = Snapshot.leaks
    /\ (op = "deallocateHeap" /\ ~result.threw /\ Len(heapBlocks) = 1)
           => Snapshot.leaks = 0

\* C6 witness: the only block of the instance, of 64 bytes, has been freed.
C6_Witness ==
    /\ op = "deallocateHeap"
    /\ result.bool
    /\ Len(heapBlocks) = 1
    /\ heapBlocks[1].size = 64
    /\ Snapshot.leaks = 0

\* C7: heapUsed of the snapshot is the sum of the sizes of the blocks whose
\* allocated flag is true, before and after every step, and a deallocateHeap
\* that frees an allocated block of size s lowers heapUsed by exactly s.
C7_HeapUsedSumsAllocatedBlocks ==
    [][/\ Snapshot.heapUsed =
              SumOfBlockSizes(heapBlocks, AllocatedIndices(heapBlocks))
       /\ Snapshot'.heapUsed =
              SumOfBlockSizes(heapBlocks', AllocatedIndices(heapBlocks'))
       /\ \A a \in AddressArgs :
              (deallocateHeap(a) /\ ~result'.threw) =>
                  \A i \in AllocatedIndices(heapBlocks)
                         \ AllocatedIndices(heapBlocks') :
                      Snapshot'.heapUsed =
                          Snapshot.heapUsed - heapBlocks[i].size
      ]_vars

\* C7 witness: of two allocated blocks of 64 bytes one has been freed, and
\* the snapshot counts the other one only.
C7_Witness ==
    /\ op = "deallocateHeap"
    /\ result.bool
    /\ Len(heapBlocks) = 2
    /\ heapBlocks[1].size = 64
    /\ heapBlocks[2].size = 64
    /\ ~heapBlocks[1].allocated
    /\ heapBlocks[2].allocated
    /\ currentHeapPointer = 128
    /\ Snapshot.heapUsed = 64

\* C8: deallocateHeap(address) with an address no block has throws 'Invalid
\* heap address' and leaves the blocks, the heap pointer and the stack as
\* they were; with an address some block has it returns true, sets the
\* allocated flag of one block with that address to false and changes
\* nothing else.
C8_DeallocateHeapFreesOrRejects ==
    [][\A a \in AddressArgs :
         deallocateHeap(a) =>
           IF a \notin AddressesOf(heapBlocks)
           THEN /\ result'.threw
                /\ result'.message = "Invalid heap address"
                /\ heapBlocks' = heapBlocks
                /\ currentHeapPointer' = currentHeapPointer
                /\ stackFrames' = stackFrames
                /\ currentStackPointer' = currentStackPointer
           ELSE /\ result' = ReturnBool(TRUE)
                /\ \E i \in 1..Len(heapBlocks) :
                       /\ heapBlocks[i].address = a
                       /\ ~heapBlocks'[i].allocated
                       /\ heapBlocks' =
                              [heapBlocks EXCEPT ![i].allocated = FALSE]
                /\ currentHeapPointer' = currentHeapPointer
                /\ stackFrames' = stackFrames
                /\ currentStackPointer' = currentStackPointer
      ]_vars

\* C8 witness: a free of an address no block has was rejected while the
\* heap held an allocated block.
C8_Witness ==
    /\ op = "deallocateHeap"
    /\ result.threw
    /\ result.message = "Invalid heap address"
    /\ Len(heapBlocks) >= 1
    /\ heapBlocks[1].allocated

\* The frames of a stack that bind a name, by index.
BindingFrames(frames, name) ==
    {i \in 1..Len(frames) : name \in DOMAIN frames[i].variables}

\* The binding of a name in the innermost frame that binds it, null when no
\* frame binds it.
InnermostBinding(frames, name) ==
    IF BindingFrames(frames, name) = {} THEN NotFound
    ELSE LET top == CHOOSE i \in BindingFrames(frames, name) :
                        \A j \in BindingFrames(frames, name) : j <= i
         IN  frames[top].variables[name]

\* C9: getVariable(name) is the binding of name in the innermost active
\* frame that binds it, null when no active frame binds it; once a frame is
\* popped the lookup is the one over the frames that remain, so a binding of
\* the popped frame is not returned.
C9_GetVariableInnermostFirst ==
    [][/\ \A n \in VarNames :
              /\ getVariable(n) = InnermostBinding(stackFrames, n)
              /\ getVariable(n)' = InnermostBinding(stackFrames', n)
       /\ (deallocateStack /\ Len(stackFrames) > 0) =>
              \A n \in VarNames :
                  getVariable(n)' = InnermostBinding(AllButTop(stackFrames), n)
      ]_vars

\* C9 witness: the inner frame was popped; it bound x to 2 and y, the outer
\* frame binds x to 1 and not y, and the lookups give the outer x and null.
C9_Witness ==
    /\ op = "deallocateStack"
    /\ result.bool
    /\ Len(stackFrames) = 1
    /\ DOMAIN stackFrames[1].variables = {"x"}
    /\ stackFrames[1].variables["x"].value = 1
    /\ getVariable("x") = [value |-> 1, type |-> "int"]
    /\ getVariable("y") = NotFound

\* C10: setVariable(name, value, type) on a non-empty stack binds name to
\* {value, type} in the top frame, returns true and changes nothing but the
\* variable map of the top frame: the other frames, the frame sizes, names
\* and start addresses, stackUsed and the heap are as before; on an empty
\* stack it returns false and changes nothing.
C10_SetVariableTouchesTopFrameOnly ==
    [][\A n \in VarNames, v \in VarValues, t \in VarTypes :
         setVariable(n, v, t) =>
           IF Len(stackFrames) = 0
           THEN /\ result' = ReturnBool(FALSE)
                /\ state' = state
           ELSE /\ result' = ReturnBool(TRUE)
                /\ Len(stackFrames') = Len(stackFrames)
                /\ AllButTop(stackFrames') = AllButTop(stackFrames)
                /\ \A i \in 1..Len(stackFrames) :
                       /\ stackFrames'[i].size = stackFrames[i].size
                       /\ stackFrames'[i].name = stackFrames[i].name
                       /\ stackFrames'[i].startAddress =
                              stackFrames[i].startAddress
                /\ stackFrames'[Len(stackFrames)].variables[n] =
                       [value |-> v, type |-> t]
                /\ currentStackPointer' = currentStackPointer
                /\ heapBlocks' = heapBlocks
                /\ currentHeapPointer' = currentHeapPointer
      ]_vars

\* C10 witness: a variable was set in the top frame of a stack of two whose
\* lower frame binds another value to the same name.
C10_Witness ==
    /\ op = "setVariable"
    /\ result.bool
    /\ Len(stackFrames) = 2
    /\ "x" \in DOMAIN stackFrames[1].variables
    /\ "x" \in DOMAIN stackFrames[2].variables
    /\ stackFrames[1].variables["x"].value = 1
    /\ stackFrames[2].variables["x"].value = 2
    /\ Len(heapBlocks) >= 1


\* The snapshot as the data model defines it, from the frames and blocks.
SnapshotOf(frames, blocks) ==
    [stackUsed |-> SumOfFrameSizes(frames),
     stackTotal |-> 8192,
     heapUsed |-> SumOfBlockSizes(blocks, AllocatedIndices(blocks)),
     heapTotal |-> 65536,
     activeFrames |-> Len(frames),
     leaks |-> Cardinality(AllocatedIndices(blocks))]

\* C11: a getMemoryInfo() call changes no simulator state; the object it
\* returns is the aggregate of the frames and blocks as they are at the
\* call, so it reflects the operations before it, and a second call with no
\* operation in between returns an equal object.
C11_SnapshotReadOnlyAndComputed ==
    [][getMemoryInfoCall =>
           /\ state' = state
           /\ info' = SnapshotOf(stackFrames, heapBlocks)
           /\ info' = SnapshotOf(stackFrames', heapBlocks')
           /\ (op = "getMemoryInfo" => info' = info)
      ]_allVars

\* C11 witness: a snapshot taken after a free: two frames, two blocks, one
\* of them freed, and the returned object counts one leak of 64 bytes.
C11_Witness ==
    /\ op = "getMemoryInfo"
    /\ info.activeFrames = 2
    /\ Len(heapBlocks) = 2
    /\ ~heapBlocks[1].allocated
    /\ heapBlocks[2].size = 64
    /\ info.leaks = 1
    /\ info.heapUsed = 64
    /\ info.stackUsed = 8192

\* C12 as stated: no engine operation signals a failure by throwing; every
\* failure is a returned value.
C12_Original_NoOperationThrows ==
    ~result.threw


(***************************************************************************)
(* CParser (src/utils/CodeExplainer.ts).  A text is a sequence of symbols, *)
(* each symbol a run of characters taken as a unit: a whitespace           *)
(* character, a delimiter character, or a word.  A token is a non-empty    *)
(* sequence of symbols.                                                    *)
(***************************************************************************)
MaxTextLen == 4

TextAlphabet == {"int", "main", "x", " ", "\n", "(", ")", "{", "}", ";"}

\* The texts of at most n symbols.
RECURSIVE TextsUpTo(_)
TextsUpTo(n) ==
    IF n = 0 THEN {<< >>}
    ELSE LET shorter == TextsUpTo(n - 1)
         IN  shorter \cup {Append(s, c) : s \in shorter, c \in TextAlphabet}

\* Programs of the specification's examples and variations of them.
SamplePrograms ==
    { <<"int", " ", "main", "(", ")", " ", "{">>,
      <<"int", " ", "main", "(", ")", "{", " ", "return", " ", "0", ";", " ", "}">>,
      <<"#include", " ", "<stdio.h>", "\n", "int", " ", "main", "(", ")", "{", "}">>,
      <<"int", "\n", "main", " ", "(", "x", ",", "x", ")", "{", "x", ";", "}">>,
      <<"void", " ", "f", "(", ")", "{", "printf", "(", "x", ")", ";", "}">>,
      <<"x", "int", " ", "main", "(", "}", "{", ")">>,
      <<"int", " ", "main", "(", ")", "{", "if", "(", "x", ")", "{", "x", ";",
        "}", "x", ";", "}">>,
      <<"int", " ", "main", "(", ")", "{", "int", " ", "x", ";", "printf",
        "(", "x", ")", ";", "x", "(", ")", ";", "return", " ", "x", ";", "}">>,
      <<"int", " ", "main", "(", ")", "{", "return", " ", "x", "(", "x", ")",
        ";", "}">> }

ParserTexts == TextsUpTo(MaxTextLen) \cup SamplePrograms

\* \s of the regular expressions and of String.prototype.trim.
IsWhitespace(c) == c \in {" ", "\n", "\t"}

\* The character class [{}();,] of tokenize.
IsDelimiter(c) == c \in {"{", "}", "(", ")", ";", ","}

\* code.replace(/([{}();,])/g, ' $1 ')
RECURSIVE padDelimiters(_)
padDelimiters(text) ==
    IF text = << >> THEN << >>
    ELSE IF IsDelimiter(Head(text))
         THEN <<" ", Head(text), " ">> \o padDelimiters(Tail(text))
         ELSE <<Head(text)>> \o padDelimiters(Tail(text))

\* String.prototype.split(/\s+/): the pieces between the maximal runs of
\* whitespace, the empty pieces at the two ends included.  done holds the
\* finished pieces, piece the one being read, inRun whether the previous
\* symbol was whitespace.
RECURSIVE splitFrom(_, _, _, _)
splitFrom(text, done, piece, inRun) ==
    IF text = << >> THEN Append(done, piece)
    ELSE IF IsWhitespace(Head(text))
         THEN IF inRun
              THEN splitFrom(Tail(text), done, piece, TRUE)
              ELSE splitFrom(Tail(text), Append(done, piece), << >>, TRUE)
         ELSE splitFrom(Tail(text), done, Append(piece, Head(text)), FALSE)

splitOnWhitespace(text) == splitFrom(text, << >>, << >>, FALSE)

\* token.trim().length > 0
RECURSIVE trimStart(_)
trimStart(token) ==
    IF token # << >> /\ IsWhitespace(Head(token))
    THEN trimStart(Tail(token))
    ELSE token

RECURSIVE trimEnd(_)
trimEnd(token) ==
    IF token # << >> /\ IsWhitespace(token[Len(token)])
    THEN trimEnd(SubSeq(token, 1, Len(token) - 1))
    ELSE token

trim(token) == trimEnd(trimStart(token))

RECURSIVE filterNonEmpty(_)
filterNonEmpty(pieces) ==
    IF pieces = << >> THEN << >>
    ELSE IF Len(trim(Head(pieces))) > 0
         THEN <<Head(pieces)>> \o filterNonEmpty(Tail(pieces))
         ELSE filterNonEmpty(Tail(pieces))

\* tokenize without the filter of the empty pieces.
tokenize_NoFilter(text) == splitOnWhitespace(padDelimiters(text))

tokenize(text) == filterNonEmpty(splitOnWhitespace(padDelimiters(text)))

(***************************************************************************)
(* hasMainFunction: /int\s+main\s*\(/ .test(code).  The match starts at a  *)
(* symbol that ends in int, runs over one or more whitespace symbols to a  *)
(* symbol main, and over zero or more whitespace symbols to a '('.         *)
(***************************************************************************)
EndsWithInt(c) == c \in {"int"}

AllWhitespace(text, from, to) ==
    \A k \in from..to : IsWhitespace(text[k])

hasMainFunction(text) ==
    \E i \in 1..Len(text) :
        /\ EndsWithInt(text[i])
        /\ \E j \in (i + 2)..Len(text) :
               /\ AllWhitespace(text, i + 1, j - 1)
               /\ text[j] = "main"
               /\ \E k \in (j + 1)..Len(text) :
                      /\ AllWhitespace(text, j + 1, k - 1)
                      /\ text[k] = "("


(***************************************************************************)
(* The recursive-descent parser.  Positions are 1-based: position i is     *)
(* currentToken = i - 1, and Len(tokens) + 1 is the end of the tokens.     *)
(* Every parse function yields the node it built and the position after   *)
(* it.  A node has a type, a value (<< >> for none) and children.          *)
(***************************************************************************)
Node(type, value, children) ==
    [type |-> type, value |-> value, children |-> children]

\* A token is spelled by the one symbol word.
Is(token, word) == token = <<word>>

\* /^[a-zA-Z_]/.test(token): the symbols that begin with a letter.
WordSymbols ==
    {"int", "void", "char", "float", "double", "main", "x", "f", "return",
     "printf", "scanf", "if", "while", "for"}

StartsWithLetter(token) == Head(token) \in WordSymbols

\* The loops 'while (currentToken < tokens.length && tokens[currentToken]
\* !== stop) currentToken++'.
RECURSIVE skipUntil(_, _, _)
skipUntil(tokens, i, stop) ==
    IF i <= Len(tokens) /\ ~Is(tokens[i], stop)
    THEN skipUntil(tokens, i + 1, stop)
    ELSE i

\* The skip without its condition.
skipOne_Unguarded(tokens, i, stop) == i + 1

\* 'if (currentToken < tokens.length && tokens[currentToken] === stop)
\* currentToken++'
skipOne(tokens, i, stop) ==
    IF i <= Len(tokens) /\ Is(tokens[i], stop) THEN i + 1 ELSE i

parseInclude(tokens, i) ==
    IF i + 1 <= Len(tokens)
    THEN [node |-> Node("Include", tokens[i + 1], << >>), pos |-> i + 2]
    ELSE [node |-> Node("Include", << >>, << >>), pos |-> i + 1]

isFunction(tokens, i) ==
    /\ i <= Len(tokens)
    /\ \E k \in {"int", "void", "char", "float", "double"} : Is(tokens[i], k)

isStatement(tokens, i) ==
    /\ i <= Len(tokens)
    /\ \/ \E k \in {"int", "char", "float", "double", "printf", "scanf",
                    "return", "if", "while", "for"} : Is(tokens[i], k)
       \/ StartsWithLetter(tokens[i])

parsePrintfStatement(tokens, i) ==
    [node |-> Node("PrintfStatement", << >>, << >>),
     pos |-> skipOne(tokens, skipUntil(tokens, i + 1, ";"), ";")]

parseReturnStatement(tokens, i) ==
    IF i + 1 <= Len(tokens) /\ ~Is(tokens[i + 1], ";")
    THEN [node |-> Node("ReturnStatement", tokens[i + 1], << >>),
          pos |-> skipOne(tokens, i + 2, ";")]
    ELSE [node |-> Node("ReturnStatement", << >>, << >>),
          pos |-> skipOne(tokens, i + 1, ";")]

parseDeclaration(tokens, i) ==
    LET type == Node("Type", tokens[i], << >>)
        named == i + 1 <= Len(tokens)
        children == IF named
                    THEN <<type, Node("Identifier", tokens[i + 1], << >>)>>
                    ELSE <<type>>
        after == IF named THEN i + 2 ELSE i + 1
    IN  [node |-> Node("Declaration", << >>, children),
         pos |-> skipOne(tokens, skipUntil(tokens, after, ";"), ";")]

parseExpressionStatement(tokens, i) ==
    [node |-> Node("ExpressionStatement", tokens[i], << >>),
     pos |-> skipOne(tokens, skipUntil(tokens, i, ";"), ";")]

parseStatement(tokens, i) ==
    IF Is(tokens[i], "printf") THEN parsePrintfStatement(tokens, i)
    ELSE IF Is(tokens[i], "return") THEN parseReturnStatement(tokens, i)
    ELSE IF \E k \in {"int", "char", "float", "double"} : Is(tokens[i], k)
         THEN parseDeclaration(tokens, i)
    ELSE parseExpressionStatement(tokens, i)

\* The while loop of parseBlock.
RECURSIVE blockStatements(_, _, _)
blockStatements(tokens, i, children) ==
    IF i <= Len(tokens) /\ ~Is(tokens[i], "}")
    THEN IF isStatement(tokens, i)
         THEN LET stmt == parseStatement(tokens, i)
              IN  blockStatements(tokens, stmt.pos,
                                  Append(children, stmt.node))
         ELSE blockStatements(tokens, i + 1, children)
    ELSE [nodes |-> children, pos |-> i]

parseBlock(tokens, i) ==
    LET body == blockStatements(tokens, i + 1, << >>)
    IN  [node |-> Node("Block", << >>, body.nodes),
         pos |-> skipOne(tokens, body.pos, "}")]

parseFunction(tokens, i) ==
    LET returnType == Node("ReturnType", tokens[i], << >>)
        named == i + 1 <= Len(tokens)
        head == IF named
                THEN <<returnType, Node("FunctionName", tokens[i + 1], << >>)>>
                ELSE <<returnType>>
        afterName == IF named THEN i + 2 ELSE i + 1
        brace == skipUntil(tokens, afterName, "{")
    IN  IF brace <= Len(tokens) /\ Is(tokens[brace], "{")
        THEN LET block == parseBlock(tokens, brace)
             IN  [node |-> Node("Function", << >>, Append(head, block.node)),
                  pos |-> block.pos]
        ELSE [node |-> Node("Function", << >>, head), pos |-> brace]

\* The first while loop of parseProgram.
RECURSIVE programIncludes(_, _, _)
programIncludes(tokens, i, children) ==
    IF i <= Len(tokens) /\ Is(tokens[i], "#include")
    THEN LET include == parseInclude(tokens, i)
         IN  programIncludes(tokens, include.pos,
                             Append(children, include.node))
    ELSE [nodes |-> children, pos |-> i]

\* The second while loop of parseProgram.
RECURSIVE programFunctions(_, _, _)
programFunctions(tokens, i, children) ==
    IF i <= Len(tokens)
    THEN IF isFunction(tokens, i)
         THEN LET func == parseFunction(tokens, i)
              IN  programFunctions(tokens, func.pos,
                                   Append(children, func.node))
         ELSE programFunctions(tokens, i + 1, children)
    ELSE [nodes |-> children, pos |-> i]

parseProgram(tokens) ==
    LET includes == programIncludes(tokens, 1, << >>)
        functions == programFunctions(tokens, includes.pos, includes.nodes)
    IN  [node |-> Node("Program", << >>, functions.nodes),
         pos |-> functions.pos]

\* The ParseResult objects.  No statement of the try block can throw, so
\* the catch clause yields no result.
NoAst == Node("none", << >>, << >>)

ParseFailure(error) == [success |-> FALSE, error |-> error, ast |-> NoAst]

ParseSuccess(ast) == [success |-> TRUE, error |-> "", ast |-> ast]

parse(text) ==
    LET tokens == tokenize(text)
    IN  IF Len(tokens) = 0 THEN ParseFailure("Empty code")
        ELSE IF ~hasMainFunction(text)
             THEN ParseFailure("No main function found")
        ELSE ParseSuccess(parseProgram(tokens).node)

(***************************************************************************)
(* validateSyntax: two scans of the characters, one net count each.        *)
(***************************************************************************)
RECURSIVE netCount(_, _, _, _)
netCount(text, open, close, count) ==
    IF text = << >> THEN count
    ELSE netCount(Tail(text), open, close,
                  IF Head(text) = open THEN count + 1
                  ELSE IF Head(text) = close THEN count - 1
                  ELSE count)

\* validateSyntax with one counter for both scans.
validateSyntax_SharedCounter(text) ==
    LET braceCount == netCount(text, "{", "}", 0)
        parenCount == netCount(text, "(", ")", braceCount)
        errors == (IF braceCount # 0 THEN <<"Unbalanced braces">> ELSE << >>)
                  \o (IF parenCount # 0
                      THEN <<"Unbalanced parentheses">> ELSE << >>)
    IN  [valid |-> Len(errors) = 0, errors |-> errors]

validateSyntax(text) ==
    LET braceCount == netCount(text, "{", "}", 0)
        parenCount == netCount(text, "(", ")", 0)
        errors == (IF braceCount # 0 THEN <<"Unbalanced braces">> ELSE << >>)
                  \o (IF parenCount # 0
                      THEN <<"Unbalanced parentheses">> ELSE << >>)
    IN  [valid |-> Len(errors) = 0, errors |-> errors]

(***************************************************************************)
(* The parser applied to a text: one action per method.                    *)
(***************************************************************************)
tokenizeCall ==
    /\ call' = "tokenize"
    /\ out' = tokenize(code)
    /\ UNCHANGED code

parseCall ==
    /\ call' = "parse"
    /\ out' = parse(code)
    /\ UNCHANGED code

validateSyntaxCall ==
    /\ call' = "validateSyntax"
    /\ out' = validateSyntax(code)
    /\ UNCHANGED code

ParserInit ==
    /\ Init
    /\ info = NoInfo
    /\ code \in ParserTexts
    /\ call = "none"
    /\ out = << >>

ParserNext ==
    /\ \/ tokenizeCall
       \/ parseCall
       \/ validateSyntaxCall
    /\ UNCHANGED <<vars, info>>

SpecParser == ParserInit /\ [][ParserNext]_allVars


\* The tokens joined by single spaces.
RECURSIVE JoinWithSpaces(_)
JoinWithSpaces(tokens) ==
    IF tokens = << >> THEN << >>
    ELSE IF Len(tokens) = 1 THEN Head(tokens)
    ELSE Head(tokens) \o <<" ">> \o JoinWithSpaces(Tail(tokens))

\* The delimiter characters of a text, in order.
RECURSIVE DelimitersOf(_)
DelimitersOf(text) ==
    IF text = << >> THEN << >>
    ELSE IF IsDelimiter(Head(text))
         THEN <<Head(text)>> \o DelimitersOf(Tail(text))
         ELSE DelimitersOf(Tail(text))

\* The tokens of a token sequence that hold a delimiter character, each
\* flattened to its characters, in order.
RECURSIVE DelimiterTokensOf(_)
DelimiterTokensOf(tokens) ==
    IF tokens = << >> THEN << >>
    ELSE IF \E k \in 1..Len(Head(tokens)) : IsDelimiter(Head(tokens)[k])
         THEN Head(tokens) \o DelimiterTokensOf(Tail(tokens))
         ELSE DelimiterTokensOf(Tail(tokens))

\* C13: tokenize is idempotent: the tokens of a text, joined by single
\* spaces and tokenized again, give the same tokens; every token is
\* non-empty and holds no whitespace; every delimiter character of the text
\* is a token on its own, and the delimiter tokens are in source order.
C13_TokenizeIdempotent ==
    call = "tokenize" =>
        /\ tokenize(JoinWithSpaces(out)) = out
        /\ \A i \in 1..Len(out) :
               /\ Len(out[i]) > 0
               /\ \A k \in 1..Len(out[i]) : ~IsWhitespace(out[i][k])
               /\ (\E k \in 1..Len(out[i]) : IsDelimiter(out[i][k]))
                      => Len(out[i]) = 1
        /\ DelimiterTokensOf(out) = DelimitersOf(code)

\* C13 witness: the text 'int main() {' has been tokenized into int, main,
\* (, ), {.
C13_Witness ==
    /\ call = "tokenize"
    /\ code = <<"int", " ", "main", "(", ")", " ", "{">>
    /\ out = << <<"int">>, <<"main">>, <<"(">>, <<")">>, <<"{">> >>

\* C14 as stated: for every text without an entry point (no match of the
\* pattern int main( ), the empty and the whitespace-only text included,
\* parse fails with the missing-entry-point error and no tree.
C14_Original_MissingEntryPointFirst ==
    (call = "parse" /\ ~hasMainFunction(code)) =>
        /\ ~out.success
        /\ out.error = "No main function found"
        /\ out.ast = NoAst

\* The number of occurrences of a character in a text.
CountOf(text, c) == Cardinality({i \in 1..Len(text) : text[i] = c})

\* C15: validateSyntax reports 'Unbalanced braces' exactly when the numbers
\* of '{' and '}' differ and 'Unbalanced parentheses' exactly when the
\* numbers of '(' and ')' differ, braces first, one error each, and valid
\* is true exactly when there is no error; 'int main() {' gives the one
\* error about braces.
C15_ValidateSyntaxCountsNetNesting ==
    call = "validateSyntax" =>
        LET braces == CountOf(code, "{") # CountOf(code, "}")
            parens == CountOf(code, "(") # CountOf(code, ")")
        IN  /\ out.valid = (~braces /\ ~parens)
            /\ out.errors =
                   (IF braces THEN <<"Unbalanced braces">> ELSE << >>)
                   \o (IF parens THEN <<"Unbalanced parentheses">>
                       ELSE << >>)
            /\ (~braces /\ ~parens) => out.errors = << >>
            /\ code = <<"int", " ", "main", "(", ")", " ", "{">>
                   => out.errors = <<"Unbalanced braces">>

\* C15 witness: 'int main() {' has been validated: one error, about braces.
C15_Witness ==
    /\ call = "validateSyntax"
    /\ code = <<"int", " ", "main", "(", ")", " ", "{">>
    /\ ~out.valid
    /\ out.errors = <<"Unbalanced braces">>


----------------------------------------------------------------------------
\* The explainers (CodeExplainer and the AdvancedCodeExplainer variants).
\* Here a text is a sequence of characters, and the regular expressions of
\* the source are patterns matched character by character, as the
\* JavaScript engine matches them: leftmost match, alternatives in order,
\* greedy quantifiers longest first, lazy ones shortest first, with
\* backtracking.  A pattern is a sequence of items; an item is a character
\* class with a repetition range, a word boundary, or an alternation.

\* \d
Digits == {"0", "1", "2", "3", "4", "5", "6", "7", "8", "9"}

\* \w
WordChars ==
    {"a", "b", "c", "d", "e", "f", "g", "h", "i", "j", "k", "l", "m",
     "n", "o", "p", "q", "r", "s", "t", "u", "v", "w", "x", "y", "z",
     "A", "B", "C", "D", "E", "F", "G", "H", "I", "J", "K", "L", "M",
     "N", "O", "P", "Q", "R", "S", "T", "U", "V", "W", "X", "Y", "Z", "_"}
    \cup Digits

\* \s
SpaceChars == {" ", "\n", "\t"}

\* max = -1 stands for no upper limit.
Class(set, negated, min, max, lazy) ==
    << [kind |-> "class", set |-> set, negated |-> negated, min |-> min,
        max |-> max, lazy |-> lazy, alts |-> << >>] >>

\* A literal: each character once; alts holds, for each position, the
\* characters accepted there.
Lit(chars) ==
    << [kind |-> "lit", set |-> {}, negated |-> FALSE, min |-> 0,
        max |-> 0, lazy |-> FALSE,
        alts |-> [i \in 1..Len(chars) |-> {chars[i]}]] >>

\* \b
WordBoundary ==
    << [kind |-> "boundary", set |-> {}, negated |-> FALSE, min |-> 0,
        max |-> 0, lazy |-> FALSE, alts |-> << >>] >>

\* (a|b|...), the alternatives in order
Alt(alternatives) ==
    << [kind |-> "alt", set |-> {}, negated |-> FALSE, min |-> 0,
        max |-> 0, lazy |-> FALSE, alts |-> alternatives] >>

\* The number of consecutive characters from pos on that the class accepts,
\* up to its maximum.
runLength(item, text, pos, n) ==
    LET rest == Len(text) - pos + 1
        limit == IF item.max = -1 \/ rest < item.max THEN rest ELSE item.max
        accepts(k) == (text[pos + k] \in item.set) # item.negated
    IN  CHOOSE k \in n..limit :
            /\ k = limit \/ ~accepts(k)
            /\ \A j \in n..(k - 1) : accepts(j)

\* The position after the match of the pattern at pos, or 0 when the
\* pattern does not match there.
RECURSIVE matchAt(_, _, _)
RECURSIVE tryCounts(_, _, _, _, _, _)
RECURSIVE tryAlternatives(_, _, _, _)
matchAt(pattern, text, pos) ==
    IF Len(pattern) = 0 THEN pos
    ELSE LET item == Head(pattern)
             rest == Tail(pattern)
             IsWordAt(p) == p >= 1 /\ p <= Len(text) /\ text[p] \in WordChars
         IN  IF item.kind = "boundary"
             THEN IF IsWordAt(pos - 1) # IsWordAt(pos)
                  THEN matchAt(rest, text, pos)
                  ELSE 0
             ELSE IF item.kind = "lit"
             THEN IF /\ pos + Len(item.alts) - 1 <= Len(text)
                     /\ \A i \in 1..Len(item.alts) :
                            text[pos + i - 1] \in item.alts[i]
                  THEN matchAt(rest, text, pos + Len(item.alts))
                  ELSE 0
             ELSE IF item.kind = "alt"
             THEN tryAlternatives(item.alts, rest, text, pos)
             ELSE LET run == runLength(item, text, pos, 0)
                  IN  IF run < item.min THEN 0
                      ELSE IF item.lazy
                      THEN tryCounts(rest, text, pos, item.min, run, 1)
                      ELSE tryCounts(rest, text, pos, run, item.min, -1)

\* The counts k, k + step, ..., last tried in this order: the first after
\* which the rest of the pattern matches decides.
tryCounts(rest, text, pos, k, last, step) ==
    LET tries == IF step = 1 THEN 0..(last - k) ELSE 0..(k - last)
        firstOf(hits) ==
            IF hits = {} THEN 0
            ELSE (CHOOSE e \in hits : \A f \in hits : e[1] <= f[1])[2]
    IN  CHOOSE r \in
            {firstOf(hits) :
                hits \in {{e \in {<<i, matchAt(rest, text, pos + k + i * step)>> :
                                       i \in tries} : e[2] # 0}}} : TRUE

tryAlternatives(alts, rest, text, pos) ==
    IF Len(alts) = 0 THEN 0
    ELSE LET r == matchAt(Head(alts) \o rest, text, pos)
         IN  IF r # 0 THEN r
             ELSE tryAlternatives(Tail(alts), rest, text, pos)

\* text.match(/pattern/g) || [] from position pos on, starts being the
\* positions where the pattern matches: the matched substrings, leftmost
\* first, none overlapping.
RECURSIVE matchesFrom(_, _, _, _)
matchesFrom(pattern, text, starts, pos) ==
    LET later == {p \in starts : p >= pos}
        firstOf(ps) == CHOOSE p \in ps : \A q \in ps : p <= q
        from(first, r) ==
            IF r = first
            THEN << << >> >> \o matchesFrom(pattern, text, starts, first + 1)
            ELSE <<SubSeq(text, first, r - 1)>>
                 \o matchesFrom(pattern, text, starts, r)
    IN  IF later = {} THEN << >>
        ELSE CHOOSE m \in
                 {from(e[1], e[2]) :
                     e \in {<<p, matchAt(pattern, text, p)>> :
                                p \in {firstOf(later)}}} : TRUE

match(pattern, text) ==
    CHOOSE m \in
        {matchesFrom(pattern, text, starts, 1) :
            starts \in {{p \in 1..Len(text) :
                            matchAt(pattern, text, p) # 0}}} : TRUE

matchCount(pattern, text) == Len(match(pattern, text))

\* /pattern/.test(text)
test(pattern, text) == \E pos \in 1..Len(text) : matchAt(pattern, text, pos) # 0


\* The words of the patterns, character by character.
Word ==
    [binary |-> <<"b", "i", "n", "a", "r", "y">>,
     bubble |-> <<"b", "u", "b", "b", "l", "e">>,
     calloc |-> <<"c", "a", "l", "l", "o", "c">>,
     char |-> <<"c", "h", "a", "r">>,
     do |-> <<"d", "o">>,
     double |-> <<"d", "o", "u", "b", "l", "e">>,
     dp |-> <<"d", "p">>,
     dynamic |-> <<"d", "y", "n", "a", "m", "i", "c">>,
     fgets |-> <<"f", "g", "e", "t", "s">>,
     find |-> <<"f", "i", "n", "d">>,
     float |-> <<"f", "l", "o", "a", "t">>,
     for |-> <<"f", "o", "r">>,
     fputs |-> <<"f", "p", "u", "t", "s">>,
     free |-> <<"f", "r", "e", "e">>,
     if |-> <<"i", "f">>,
     include |-> <<"i", "n", "c", "l", "u", "d", "e">>,
     inorder |-> <<"i", "n", "o", "r", "d", "e", "r">>,
     insert |-> <<"i", "n", "s", "e", "r", "t">>,
     int |-> <<"i", "n", "t">>,
     left |-> <<"l", "e", "f", "t">>,
     long |-> <<"l", "o", "n", "g">>,
     main |-> <<"m", "a", "i", "n">>,
     malloc |-> <<"m", "a", "l", "l", "o", "c">>,
     memo |-> <<"m", "e", "m", "o">>,
     merge |-> <<"m", "e", "r", "g", "e">>,
     next |-> <<"n", "e", "x", "t">>,
     postorder |-> <<"p", "o", "s", "t", "o", "r", "d", "e", "r">>,
     preorder |-> <<"p", "r", "e", "o", "r", "d", "e", "r">>,
     printf |-> <<"p", "r", "i", "n", "t", "f">>,
     programming |-> <<"p", "r", "o", "g", "r", "a", "m", "m", "i", "n", "g">>,
     quick |-> <<"q", "u", "i", "c", "k">>,
     realloc |-> <<"r", "e", "a", "l", "l", "o", "c">>,
     return |-> <<"r", "e", "t", "u", "r", "n">>,
     right |-> <<"r", "i", "g", "h", "t">>,
     root |-> <<"r", "o", "o", "t">>,
     scanf |-> <<"s", "c", "a", "n", "f">>,
     search |-> <<"s", "e", "a", "r", "c", "h">>,
     selection |-> <<"s", "e", "l", "e", "c", "t", "i", "o", "n">>,
     short |-> <<"s", "h", "o", "r", "t">>,
     sort |-> <<"s", "o", "r", "t">>,
     struct |-> <<"s", "t", "r", "u", "c", "t">>,
     switch |-> <<"s", "w", "i", "t", "c", "h">>,
     traverse |-> <<"t", "r", "a", "v", "e", "r", "s", "e">>,
     unsigned |-> <<"u", "n", "s", "i", "g", "n", "e", "d">>,
     value |-> <<"v", "a", "l", "u", "e">>,
     while |-> <<"w", "h", "i", "l", "e">>]

\* \s*, \s+, \w+, and [^c]* or [^c]+ (min 0 or 1)
Spaces0 == Class(SpaceChars, FALSE, 0, -1, FALSE)
Spaces1 == Class(SpaceChars, FALSE, 1, -1, FALSE)
Word1 == Class(WordChars, FALSE, 1, -1, FALSE)
Not(c, min) == Class({c}, TRUE, min, -1, FALSE)

\* name\s*\(  and  name\s*\([^)]+\)
CallOf(name) == Lit(name) \o Spaces0 \o Lit(<<"(">>)
CallWithArgs(name) == CallOf(name) \o Not(")", 1) \o Lit(<<")">>)

\* /\w+\s+\w+\s*\([^)]*\)\s*\{/
FunctionPattern ==
    Word1 \o Spaces1 \o Word1 \o Spaces0 \o Lit(<<"(">>) \o Not(")", 0)
    \o Lit(<<")">>) \o Spaces0 \o Lit(<<"{">>)

\* /#include\s*[<"](.*?)[>"]/
IncludePattern ==
    Lit(<<"#">> \o Word.include) \o Spaces0
    \o Class({"<", "\""}, FALSE, 1, 1, FALSE)
    \o Class({"\n"}, TRUE, 0, -1, TRUE)
    \o Class({">", "\""}, FALSE, 1, 1, FALSE)

\* /struct\s+\w+/
StructPattern == Lit(Word.struct) \o Spaces1 \o Word1

\* /struct\s+(\w+)\s*\{([^}]+)\}/
StructBodyPattern ==
    StructPattern \o Spaces0 \o Lit(<<"{">>) \o Not("}", 1) \o Lit(<<"}">>)

\* /malloc|calloc/
AllocPattern == Alt(<<Lit(Word.malloc), Lit(Word.calloc)>>)

\* /\*\w+|\w+\*/
PointerPattern == Alt(<<Lit(<<"*">>) \o Word1, Word1 \o Lit(<<"*">>)>>)

\* /\b(t1|t2|...)\s+\w+/ for the given type names
TypedNamePattern(types) ==
    WordBoundary \o Alt([i \in 1..Len(types) |-> Lit(types[i])])
    \o Spaces1 \o Word1

\* string.includes(word)
includes(string, word) == test(Lit(word), string)

\* The inputs: a text is up to MaxFragments fragments of C, one after the
\* other, taken in the order of a program (a fragment may be repeated).
MaxFragments == 2

Fragments ==
    << <<"#", "i", "n", "c", "l", "u", "d", "e", " ", "<", "a", ".", "h",
         ">", "\n">>,
       <<"s", "t", "r", "u", "c", "t", " ", "s", " ", "{", " ", "i", "n",
         "t", " ", "x", ";", " ", "}", ";", "\n">>,
       <<"i", "n", "t", " ", "m", "a", "i", "n", "(", ")", " ", "{", "\n">>,
       <<"s", "t", "r", "u", "c", "t", " ", "n", " ", "*", "p", " ", "=",
         " ", "(", "s", "t", "r", "u", "c", "t", " ", "n", "*", ")", "m",
         "a", "l", "l", "o", "c", "(", "4", ")", ";", "\n">>,
       <<"i", "n", "t", " ", "*", "q", " ", "=", " ", "c", "a", "l", "l",
         "o", "c", "(", "1", ",", " ", "4", ")", ";", "\n">>,
       <<"f", "o", "r", " ", "(", ";", ";", ")", " ">>,
       <<"w", "h", "i", "l", "e", " ", "(", "*", "x", ")", " ">>,
       <<"i", "f", " ", "(", "*", "y", ")", " ">>,
       <<"q", " ", "=", " ", "m", "a", "l", "l", "o", "c", "(", "8", ")",
         ";", " ", "f", "r", "e", "e", "(", "q", ")", ";", "\n">>,
       <<"p", " ", "=", " ", "r", "e", "a", "l", "l", "o", "c", "(", "p",
         ",", " ", "8", ")", ";", "\n">>,
       <<"f", "r", "e", "e", "(", "p", ")", ";", "\n">>,
       <<"p", "r", "i", "n", "t", "f", "(", "x", ")", ";", "\n">>,
       <<"r", "e", "t", "u", "r", "n", " ", "0", ";", "\n", "}", "\n">> >>

\* The texts of at most n fragments, none before the fragment numbered
\* first.
RECURSIVE FragmentTexts(_, _)
FragmentTexts(n, first) ==
    IF n = 0 THEN {<< >>}
    ELSE {<< >>}
         \cup UNION {{Fragments[i] \o t : t \in FragmentTexts(n - 1, i)} :
                     i \in first..Len(Fragments)}

ExplainerTexts == FragmentTexts(MaxFragments, 1)

\* A section of an explanation: its heading, and of its prose the band of
\* complexity it names and whether it has the leak wording.
Section(title, band, leakWarning) ==
    [title |-> title, band |-> band, leakWarning |-> leakWarning]

\* AdvancedCodeExplainer, lines 627-1124.

calculateComplexityScore(text) ==
    matchCount(WordBoundary \o Lit(Word.for) \o WordBoundary, text) * 2
    + matchCount(WordBoundary \o Lit(Word.while) \o WordBoundary, text) * 2
    + matchCount(WordBoundary \o Lit(Word.if) \o WordBoundary, text) * 1
    + matchCount(PointerPattern, text) * 2
    + matchCount(AllocPattern, text) * 3
    + matchCount(StructPattern, text) * 2
    + matchCount(FunctionPattern, text) * 1

determineComplexity_StrictBounds(text) ==
    LET score == calculateComplexityScore(text)
    IN  IF score > 15 THEN "Advanced"
        ELSE IF score > 10 THEN "Complex"
        ELSE IF score > 5 THEN "Moderate"
        ELSE "Simple"

determineComplexity(text) ==
    LET score == calculateComplexityScore(text)
    IN  IF score >= 15 THEN "Advanced"
        ELSE IF score >= 10 THEN "Complex"
        ELSE IF score >= 5 THEN "Moderate"
        ELSE "Simple"

\* The band is the prose's own word: 'exhibits low complexity',
\* 'demonstrates moderate complexity', 'shows significant complexity',
\* 'exhibits high complexity'.
analyzeComplexity(text) ==
    LET complexityScore == calculateComplexityScore(text)
    IN  << Section("PROGRAM COMPLEXITY AND PERFORMANCE CHARACTERISTICS",
                   IF complexityScore < 5 THEN "low"
                   ELSE IF complexityScore < 10 THEN "moderate"
                   ELSE IF complexityScore < 15 THEN "significant"
                   ELSE "high",
                   FALSE) >>

detectFeatures(text) ==
    [hasMain |-> test(Lit(Word.int) \o Spaces1 \o CallOf(Word.main), text),
     hasStructs |-> test(StructPattern, text),
     hasDynamicMemory |->
         test(Alt(<<Lit(Word.malloc), Lit(Word.calloc), Lit(Word.free)>>), text),
     hasPointers |-> test(PointerPattern, text),
     hasArrays |->
         test(Word1 \o Lit(<<"[">>) \o Class(WordChars, FALSE, 0, -1, FALSE)
              \o Lit(<<"]">>), text),
     hasLoops |->
         test(Alt(<<Lit(Word.for), Lit(Word.while), Lit(Word.do)>>)
              \o Spaces0 \o Lit(<<"(">>), text),
     hasIO |->
         test(Alt(<<Lit(Word.printf), Lit(Word.scanf), Lit(Word.fgets),
                    Lit(Word.fputs)>>), text),
     functionCount |-> matchCount(FunctionPattern, text)]

\* code.split('\n').filter(line => line.trim()).length: the lines that
\* have a character other than white space.
RECURSIVE lineCount(_, _, _)
lineCount(text, pos, blank) ==
    IF pos > Len(text) THEN 0
    ELSE IF text[pos] = "\n" THEN lineCount(text, pos + 1, TRUE)
    ELSE IF text[pos] \in SpaceChars THEN lineCount(text, pos + 1, blank)
    ELSE (IF blank THEN 1 ELSE 0) + lineCount(text, pos + 1, FALSE)

generateSummary(text) ==
    [complexity |-> determineComplexity(text),
     lineCount |-> lineCount(text, 1, TRUE),
     features |-> detectFeatures(text)]

\* The leak wording is 'the program appears to lack corresponding free()
\* calls for the allocated memory, which could potentially lead to memory
\* leaks'.
analyzeMemoryManagement(text) ==
    LET mallocCalls == matchCount(CallOf(Word.malloc), text)
        callocCalls == matchCount(CallOf(Word.calloc), text)
        reallocCalls == matchCount(CallOf(Word.realloc), text)
        freeCalls == matchCount(CallOf(Word.free), text)
    IN  IF mallocCalls = 0 /\ callocCalls = 0 /\ reallocCalls = 0 THEN << >>
        ELSE <<Section("DYNAMIC MEMORY MANAGEMENT", "",
                       IF freeCalls > 0 THEN FALSE
                       ELSE mallocCalls > 0 \/ callocCalls > 0)>>

\* Emitted for every text; its sentences about loops, recursion, arrays and
\* dynamic memory are added to the one section and are not modelled.
analyzeOptimizations(text) ==
    <<Section("POTENTIAL OPTIMIZATIONS AND BEST PRACTICES", "", FALSE)>>

generateDetailedExplanation(text) ==
    LET analyzeIncludes ==
            IF matchCount(IncludePattern, text) = 0 THEN << >>
            ELSE <<Section("HEADER FILES AND LIBRARIES", "", FALSE)>>
        analyzeDataTypes ==
            (IF matchCount(StructBodyPattern, text) > 0
             THEN <<Section("CUSTOM DATA STRUCTURES", "", FALSE)>>
             ELSE << >>)
            \o (IF matchCount(Word1 \o Spaces1 \o Word1 \o Spaces0
                              \o Lit(<<"[">>) \o Not("]", 0)
                              \o Lit(<<"]">>), text) > 0
                THEN <<Section("ARRAY DECLARATIONS", "", FALSE)>>
                ELSE << >>)
        analyzeFunctions ==
            IF matchCount(FunctionPattern, text) = 0 THEN << >>
            ELSE <<Section("FUNCTION DEFINITIONS AND PROGRAM STRUCTURE", "",
                           FALSE)>>
        \* /\b(int|char|float|double|long|short|unsigned)\s+(\**)(\w+)
        \*  (?:\s*=\s*([^;,]+))?/g
        variables ==
            WordBoundary
            \o Alt(<<Lit(Word.int), Lit(Word.char), Lit(Word.float),
                     Lit(Word.double), Lit(Word.long), Lit(Word.short),
                     Lit(Word.unsigned)>>)
            \o Spaces1 \o Class({"*"}, FALSE, 0, -1, FALSE) \o Word1
            \o Alt(<<Spaces0 \o Lit(<<"=">>) \o Spaces0
                     \o Class({";", ","}, TRUE, 1, -1, FALSE),
                     << >> >>)
        analyzeVariables3 ==
            IF matchCount(variables, text) = 0 THEN << >>
            ELSE <<Section("VARIABLE DECLARATIONS AND MEMORY ALLOCATION", "",
                           FALSE)>>
        forLoops == matchCount(CallWithArgs(Word.for), text)
        whileLoops == matchCount(CallWithArgs(Word.while), text)
        doWhileLoops ==
            matchCount(Lit(Word.do) \o Spaces0 \o Lit(<<"{">>) \o Not("}", 0)
                       \o Lit(<<"}">>) \o Spaces0
                       \o CallWithArgs(Word.while), text)
        ifStatements == matchCount(CallWithArgs(Word.if), text)
        switchStatements == matchCount(CallWithArgs(Word.switch), text)
        analyzeControlFlow ==
            (IF forLoops > 0 \/ whileLoops > 0 \/ doWhileLoops > 0
             THEN <<Section("ITERATIVE CONTROL STRUCTURES", "", FALSE)>>
             ELSE << >>)
            \o (IF ifStatements > 0 \/ switchStatements > 0
                THEN <<Section("CONDITIONAL CONTROL STRUCTURES", "", FALSE)>>
                ELSE << >>)
        analyzeInputOutput ==
            IF /\ matchCount(CallOf(Word.printf), text) = 0
               /\ matchCount(CallOf(Word.scanf), text) = 0
               /\ matchCount(CallOf(Word.fgets), text) = 0
               /\ matchCount(CallOf(Word.fputs), text) = 0
            THEN << >>
            ELSE <<Section("INPUT/OUTPUT OPERATIONS", "", FALSE)>>
    IN  analyzeIncludes
        \o analyzeDataTypes
        \o analyzeFunctions
        \o analyzeVariables3
        \o analyzeControlFlow
        \o analyzeMemoryManagement(text)
        \o analyzeInputOutput
        \o analyzeComplexity(text)
        \o analyzeOptimizations(text)

\* The sum of a sequence of numbers (forEach with +=).
RECURSIVE sum(_)
sum(numbers) ==
    IF Len(numbers) = 0 THEN 0 ELSE Head(numbers) + sum(Tail(numbers))

\* parseInt of a run of digits
RECURSIVE parseInt(_)
parseInt(digits) ==
    IF Len(digits) = 0 THEN 0
    ELSE parseInt(SubSeq(digits, 1, Len(digits) - 1)) * 10
         + (CHOOSE d \in 0..9 :
                <<"0", "1", "2", "3", "4", "5", "6", "7", "8", "9">>[d + 1]
                    = digits[Len(digits)])

min(a, b) == IF a < b THEN a ELSE b
max(a, b) == IF a > b THEN a ELSE b

estimateMemoryUsage3_NoFloor(text) ==
    LET mallocCalls == match(AllocPattern, text)
        freeCalls == match(CallOf(Word.free), text)
    IN  [stackUsed |-> 0, heapUsed |-> Len(mallocCalls) * 64,
         activeFrames |-> 1,
         memoryLeaks |-> Len(mallocCalls) - Len(freeCalls)]

estimateMemoryUsage3(text) ==
    LET variables ==
            match(TypedNamePattern(<<Word.int, Word.char, Word.float,
                                     Word.double, Word.long, Word.short>>), text)
        functions == match(FunctionPattern, text)
        mallocCalls == match(AllocPattern, text)
        freeCalls == match(CallOf(Word.free), text)
        \* /\w+\s+\w+\s*\[\d+\]/g
        arrays ==
            match(Word1 \o Spaces1 \o Word1 \o Spaces0 \o Lit(<<"[">>)
                  \o Class(Digits, FALSE, 1, -1, FALSE) \o Lit(<<"]">>),
                  text)
        \* parseInt of the number in the first match of /\[(\d+)\]/
        arraySize(array) ==
            LET sizeMatch ==
                    match(Lit(<<"[">>) \o Class(Digits, FALSE, 1, -1, FALSE)
                          \o Lit(<<"]">>), array)
            IN  IF Len(sizeMatch) = 0 THEN 0
                ELSE parseInt(SubSeq(sizeMatch[1], 2, Len(sizeMatch[1]) - 1))
        variableSize(variable) ==
            IF includes(variable, Word.int) \/ includes(variable, Word.float)
            THEN 4
            ELSE IF includes(variable, Word.double)
                    \/ includes(variable, Word.long)
            THEN 8
            ELSE IF includes(variable, Word.char) THEN 1
            ELSE IF includes(variable, Word.short) THEN 2
            ELSE 0
        arrayBytes(array) ==
            IF includes(array, Word.int) \/ includes(array, Word.float)
            THEN arraySize(array) * 4
            ELSE IF includes(array, Word.double) THEN arraySize(array) * 8
            ELSE IF includes(array, Word.char) THEN arraySize(array)
            ELSE 0
        stackUsed ==
            sum([i \in 1..Len(variables) |-> variableSize(variables[i])])
            + sum([i \in 1..Len(arrays) |-> arrayBytes(arrays[i])])
            + Len(functions) * 24
    IN  [stackUsed |-> min(stackUsed, 2048),
         heapUsed |-> Len(mallocCalls) * 64,
         activeFrames |-> max(1, Len(functions)),
         memoryLeaks |-> max(0, Len(mallocCalls) - Len(freeCalls))]

\* analyze(code) of lines 631-649: the analysis of the trimmed text, or the
\* fixed answer for a text that is empty once trimmed.
analyze ==
    /\ call' = "analyze"
    /\ out' =
           LET text == trim(code)
           IN  IF Len(text) = 0
               THEN [empty |-> TRUE,
                     summary |-> [complexity |-> "", lineCount |-> 0,
                                  features |-> << >>],
                     detailedExplanation |-> << >>,
                     memoryUsage |-> [stackUsed |-> 0, heapUsed |-> 0,
                                      activeFrames |-> 0, memoryLeaks |-> 0]]
               ELSE [empty |-> FALSE,
                     summary |-> generateSummary(text),
                     detailedExplanation |-> generateDetailedExplanation(text),
                     memoryUsage |-> estimateMemoryUsage3(text)]
    /\ UNCHANGED code

\* AdvancedCodeExplainer, lines 363-615.

analyzeMemory(text) ==
    LET mallocCalls == matchCount(AllocPattern, text)
        freeCalls == matchCount(CallOf(Word.free), text)
    IN  IF mallocCalls = 0 THEN << >>
        ELSE <<Section("Memory Management", "",
                       IF freeCalls = 0 THEN TRUE
                       ELSE IF freeCalls < mallocCalls THEN TRUE
                       ELSE FALSE)>>

generateExplanation(text) ==
    LET includes2 ==
            IF matchCount(IncludePattern, text) = 0 THEN << >>
            ELSE <<Section("Libraries Used", "", FALSE)>>
        functions ==
            IF matchCount(FunctionPattern, text) = 0 THEN << >>
            ELSE <<Section("Functions", "", FALSE)>>
        variables ==
            IF matchCount(
                   WordBoundary
                   \o Alt(<<Lit(Word.int), Lit(Word.char), Lit(Word.float),
                            Lit(Word.double)>>)
                   \o Spaces1 \o Class({"*"}, FALSE, 0, -1, FALSE) \o Word1,
                   text) = 0
            THEN << >>
            ELSE <<Section("Variables", "", FALSE)>>
        structures ==
            IF matchCount(StructBodyPattern, text) = 0 THEN << >>
            ELSE <<Section("Data Structures", "", FALSE)>>
        logic ==
            LET forLoops == matchCount(CallOf(Word.for), text)
                whileLoops == matchCount(CallOf(Word.while), text)
                ifStatements == matchCount(CallOf(Word.if), text)
                arrays ==
                    matchCount(Word1 \o Lit(<<"[">>)
                               \o Class(Digits, FALSE, 0, -1, FALSE)
                               \o Lit(<<"]">>), text)
            IN  IF forLoops > 0 \/ whileLoops > 0 \/ ifStatements > 0
                   \/ arrays > 0
                THEN <<Section("Program Logic", "", FALSE)>>
                ELSE << >>
    IN  includes2 \o functions \o variables \o structures \o logic
        \o analyzeMemory(text)

\* The step of analyze (lines 366-382) that builds the explanation; analyze
\* takes it only for a text that is not empty once trimmed.
generateExplanationStep ==
    /\ Len(trim(code)) > 0
    /\ call' = "generateExplanation"
    /\ out' = generateExplanation(trim(code))
    /\ UNCHANGED code

\* AdvancedCodeExplainer, lines 17-351.

explainMemoryManagement(text) ==
    LET hasMalloc == test(AllocPattern, text)
        hasFree == test(CallOf(Word.free), text)
        mallocCount == matchCount(AllocPattern, text)
        freeCount == matchCount(CallOf(Word.free), text)
    IN  (IF hasMalloc
         THEN <<Section("Dynamic Memory Allocation", "", FALSE)>>
         ELSE << >>)
        \o (IF hasFree
            THEN <<Section("Memory Deallocation Strategy", "", FALSE)>>
            ELSE << >>)
        \o (IF mallocCount > freeCount
            THEN <<Section("Memory Leak Warning", "", TRUE)>>
            ELSE << >>)

\* The step of generateAdvancedExplanations (line 84) that adds the items
\* about memory; analyze takes it only for a text that is not empty once
\* trimmed.
explainMemoryManagementStep ==
    /\ Len(trim(code)) > 0
    /\ call' = "explainMemoryManagement"
    /\ out' = explainMemoryManagement(trim(code))
    /\ UNCHANGED code

\* CodeExplainer, lines 8-273.  A block is modelled by its type and by its
\* title without the name the title quotes.
Block(title, type) == [title |-> title, type |-> type]

\* n copies of a block
Blocks(n, block) == [i \in 1..n |-> block]

\* /\b(int|char|float|double|long|short)\s+(\w+)(?:\s*=\s*([^;]+))?/g
analyzeVariables(text) ==
    Blocks(matchCount(
               TypedNamePattern(<<Word.int, Word.char, Word.float, Word.double,
                                  Word.long, Word.short>>)
               \o Alt(<<Spaces0 \o Lit(<<"=">>) \o Spaces0 \o Not(";", 1),
                        << >> >>),
               text),
           Block("Variable", "variable"))

\* Of a match of /(\w+)\s*=\s*([^;]+);/ the expression, trimmed: what is
\* between the first '=' and the final ';'.
expressionOf(assignment) ==
    LET eq == CHOOSE i \in 1..Len(assignment) :
                  /\ assignment[i] = "="
                  /\ \A j \in 1..(i - 1) : assignment[j] # "="
    IN  trim(SubSeq(assignment, eq + 1, Len(assignment) - 1))

analyzeLogic(text) ==
    LET printfs == matchCount(CallWithArgs(Word.printf), text)
        returns ==
            matchCount(Lit(Word.return) \o Spaces1 \o Not(";", 1)
                       \o Lit(<<";">>), text)
        assignments ==
            match(Word1 \o Spaces0 \o Lit(<<"=">>) \o Spaces0 \o Not(";", 1)
                  \o Lit(<<";">>), text)
        \* !expression.match(/^\d+$/) && !expression.match(/^".*"$/)
        reported(expression) ==
            /\ ~(/\ Len(expression) > 0
                 /\ \A i \in 1..Len(expression) : expression[i] \in Digits)
            /\ ~(/\ Len(expression) >= 2
                 /\ expression[1] = "\""
                 /\ expression[Len(expression)] = "\""
                 /\ \A i \in 1..Len(expression) : expression[i] # "\n")
        RECURSIVE assignmentBlocks(_)
        assignmentBlocks(i) ==
            IF i > Len(assignments) THEN << >>
            ELSE (IF reported(expressionOf(assignments[i]))
                  THEN <<Block("Assignment Operation", "logic")>>
                  ELSE << >>)
                 \o assignmentBlocks(i + 1)
    IN  Blocks(printfs, Block("Output Statement", "output"))
        \o Blocks(returns, Block("Return Statement", "logic"))
        \o assignmentBlocks(1)

\* explain(code), lines 11-50
explanationOf(text) ==
    IF Len(text) = 0 THEN <<Block("Empty Code", "overview")>>
    ELSE <<Block("Program Overview", "overview")>>
         \o Blocks(matchCount(IncludePattern, text),
                   Block("Header File", "includes"))
         \o Blocks(matchCount(FunctionPattern, text),
                   Block("Function", "function"))
         \o analyzeVariables(text)
         \o analyzeLogic(text)

explain ==
    /\ call' = "explain"
    /\ out' = explanationOf(trim(code))
    /\ UNCHANGED code

\* estimateMemoryUsage(), lines 248-272, of the text explain has kept
estimateMemoryUsage(text) ==
    LET variables ==
            match(TypedNamePattern(<<Word.int, Word.char, Word.float,
                                     Word.double, Word.long, Word.short>>), text)
        functions == match(FunctionPattern, text)
        mallocCalls == match(CallOf(Word.malloc), text)
        freeCalls == match(CallOf(Word.free), text)
        variableSize(variable) ==
            IF includes(variable, Word.int) \/ includes(variable, Word.float)
            THEN 4
            ELSE IF includes(variable, Word.double)
                    \/ includes(variable, Word.long)
            THEN 8
            ELSE IF includes(variable, Word.char) THEN 1
            ELSE IF includes(variable, Word.short) THEN 2
            ELSE 0
        stackUsed ==
            sum([i \in 1..Len(variables) |-> variableSize(variables[i])])
            + Len(functions) * 16
    IN  [stackUsed |-> min(stackUsed, 1024),
         heapUsed |-> max(0, Len(mallocCalls) * 32),
         activeFrames |-> max(1, Len(functions)),
         memoryLeaks |-> max(0, Len(mallocCalls) - Len(freeCalls))]

\* The caller (the explain interface) calls it after explain(code), which
\* keeps the trimmed text in this.code.
estimateMemoryUsageCall ==
    /\ call \in {"explain", "estimateMemoryUsage"}
    /\ call' = "estimateMemoryUsage"
    /\ out' = estimateMemoryUsage(trim(code))
    /\ UNCHANGED code

ExplainerInit ==
    /\ Init
    /\ info = NoInfo
    /\ code \in ExplainerTexts
    /\ call = "none"
    /\ out = << >>

ExplainerNext ==
    /\ \/ analyze
       \/ generateExplanationStep
       \/ explainMemoryManagementStep
       \/ explain
       \/ estimateMemoryUsageCall
    /\ UNCHANGED <<vars, info>>

SpecExplainer == ExplainerInit /\ [][ExplainerNext]_allVars

----------------------------------------------------------------------------
\* Properties of the explainers.

\* The band of a score: Simple below 5, Moderate 5..9, Complex 10..14,
\* Advanced from 15.
BandOf(score) ==
    IF score < 5 THEN "Simple"
    ELSE IF score <= 9 THEN "Moderate"
    ELSE IF score <= 14 THEN "Complex"
    ELSE "Advanced"

\* The word the prose of analyzeComplexity uses for a band.
ProseOf(band) ==
    IF band = "Simple" THEN "low"
    ELSE IF band = "Moderate" THEN "moderate"
    ELSE IF band = "Complex" THEN "significant"
    ELSE "high"

\* The weighted sum of the occurrences in a text.
WeightedSum(text) ==
    2 * matchCount(WordBoundary \o Lit(Word.for) \o WordBoundary, text)
    + 2 * matchCount(WordBoundary \o Lit(Word.while) \o WordBoundary, text)
    + 1 * matchCount(WordBoundary \o Lit(Word.if) \o WordBoundary, text)
    + 2 * matchCount(PointerPattern, text)
    + 3 * matchCount(AllocPattern, text)
    + 2 * matchCount(StructPattern, text)
    + 1 * matchCount(FunctionPattern, text)

\* C16: the complexity score is for*2 + while*2 + if*1 + pointer use*2 +
\* malloc/calloc*3 + struct*2 + function*1; it falls in exactly one band
\* (Simple < 5, Moderate 5..9, Complex 10..14, Advanced >= 15); the label
\* of determineComplexity in the summary and the band of the prose of
\* analyzeComplexity are that band.
C16_ScoreBandsAgree ==
    (call = "analyze" /\ ~out.empty) =>
        LET text == trim(code)
            score == calculateComplexityScore(text)
            complexity ==
                {i \in 1..Len(out.detailedExplanation) :
                     out.detailedExplanation[i].band # ""}
        IN  /\ score = WeightedSum(text)
            /\ Cardinality({b \in {"Simple", "Moderate", "Complex",
                                   "Advanced"} : b = BandOf(score)}) = 1
            /\ out.summary.complexity = BandOf(score)
            /\ determineComplexity(text) = BandOf(score)
            /\ Cardinality(complexity) = 1
            /\ \A i \in complexity :
                   out.detailedExplanation[i].band = ProseOf(BandOf(score))

\* C16 witness: a text of score 15, the lowest Advanced score, has been
\* analyzed.
C16_Witness ==
    /\ call = "analyze"
    /\ ~out.empty
    /\ calculateComplexityScore(trim(code)) = 15
    /\ out.summary.complexity = "Advanced"
    /\ \E i \in 1..Len(out.detailedExplanation) :
           out.detailedExplanation[i].band = "high"

\* The place of a section's category in the fixed order overview (1),
\* includes (2), data types (3), functions (4), variables (5), control
\* flow (6), memory (7), complexity (8), best practices (9); 0 for a section
\* of no listed category (input/output, and the items of the first variant
\* that are about memory are all of category memory).
CategoryOf(title) ==
    IF title \in {"Program Overview", "Empty Code"} THEN 1
    ELSE IF title \in {"HEADER FILES AND LIBRARIES", "Libraries Used",
                       "Header File"} THEN 2
    ELSE IF title \in {"CUSTOM DATA STRUCTURES", "ARRAY DECLARATIONS",
                       "Data Structures"} THEN 3
    ELSE IF title \in {"FUNCTION DEFINITIONS AND PROGRAM STRUCTURE",
                       "Functions", "Function"} THEN 4
    ELSE IF title \in {"VARIABLE DECLARATIONS AND MEMORY ALLOCATION",
                       "Variables", "Variable"} THEN 5
    ELSE IF title \in {"ITERATIVE CONTROL STRUCTURES",
                       "CONDITIONAL CONTROL STRUCTURES", "Program Logic",
                       "Output Statement", "Return Statement",
                       "Assignment Operation"} THEN 6
    ELSE IF title \in {"DYNAMIC MEMORY MANAGEMENT", "Memory Management",
                       "Dynamic Memory Allocation",
                       "Memory Deallocation Strategy",
                       "Memory Leak Warning"} THEN 7
    ELSE IF title = "PROGRAM COMPLEXITY AND PERFORMANCE CHARACTERISTICS"
    THEN 8
    ELSE IF title = "POTENTIAL OPTIMIZATIONS AND BEST PRACTICES" THEN 9
    ELSE 0

\* The sections of the explanation a call has returned.
SectionsOut ==
    IF call = "analyze" THEN out.detailedExplanation
    ELSE IF call \in {"generateExplanation", "explainMemoryManagement",
                      "explain"} THEN out
    ELSE << >>

\* C17 as stated: in every explanation, of every variant, no section of a
\* later category precedes a section of an earlier category in the order
\* overview, includes, data types, functions, variables, control flow,
\* memory, complexity, best practices.
C17_Original_SectionsInCategoryOrder ==
    \A i, j \in 1..Len(SectionsOut) :
        (/\ i < j
         /\ CategoryOf(SectionsOut[i].title) # 0
         /\ CategoryOf(SectionsOut[j].title) # 0)
            => CategoryOf(SectionsOut[i].title)
                   <= CategoryOf(SectionsOut[j].title)

\* The number of features of the text that trigger a category: the include
\* directives, the function definitions, the allocation calls, and for
\* complexity the constructs the score counts.
FeatureCount(category, text) ==
    IF category = 2 THEN matchCount(IncludePattern, text)
    ELSE IF category = 4 THEN matchCount(FunctionPattern, text)
    ELSE IF category = 7
    THEN matchCount(CallOf(Word.malloc), text)
         + matchCount(CallOf(Word.calloc), text)
         + matchCount(CallOf(Word.realloc), text)
    ELSE calculateComplexityScore(text)

\* C18 as stated: in every explanation each category is emitted at most
\* once (its sections are together), and a category with no triggering
\* feature in the text is not emitted at all; here for the categories
\* includes, functions, memory and complexity.
C18_Original_NoFeatureNoSection ==
    call \in {"analyze", "generateExplanation", "explain"} =>
        /\ \A i, j, k \in 1..Len(SectionsOut) :
               (/\ i < j /\ j < k
                /\ CategoryOf(SectionsOut[i].title) # 0
                /\ CategoryOf(SectionsOut[i].title)
                       = CategoryOf(SectionsOut[k].title))
                   => CategoryOf(SectionsOut[j].title)
                          = CategoryOf(SectionsOut[i].title)
        /\ \A category \in {2, 4, 7, 8} :
               FeatureCount(category, trim(code)) = 0
                   => \A i \in 1..Len(SectionsOut) :
                          CategoryOf(SectionsOut[i].title) # category

\* ' malloc(1);' : one more allocation call
OneMoreAllocation == <<" ", "m", "a", "l", "l", "o", "c", "(", "1", ")", ";">>

\* The numbers N that count the allocation calls of a text: its malloc(
\* calls, these with its calloc( calls, and these with its realloc( calls.
AllocationCallCounts(text) ==
    LET mallocs == matchCount(CallOf(Word.malloc), text)
        callocs == matchCount(CallOf(Word.calloc), text)
        reallocs == matchCount(CallOf(Word.realloc), text)
    IN  {mallocs, mallocs + callocs, mallocs + callocs + reallocs}

\* C19 as stated: a text has a number N of allocation calls and a number M
\* of free( calls for which the leak count of estimateMemoryUsage, of
\* CodeExplainer and of AdvancedCodeExplainer alike, is N - M when N > M
\* and 0 otherwise, is never negative, and is one more after one more
\* allocation call that no free call matches.
C19_Original_LeakEstimateIsExcess ==
    (\/ call = "estimateMemoryUsage"
     \/ call = "analyze" /\ ~out.empty) =>
        LET text == trim(code)
            M == matchCount(CallOf(Word.free), text)
            leaks ==
                IF call = "estimateMemoryUsage" THEN out.memoryLeaks
                ELSE estimateMemoryUsage(text).memoryLeaks
            leaks3 ==
                IF call = "analyze" THEN out.memoryUsage.memoryLeaks
                ELSE estimateMemoryUsage3(text).memoryLeaks
            Holds(N, estimate, estimateWithOneMore) ==
                /\ estimate = (IF N > M THEN N - M ELSE 0)
                /\ estimate >= 0
                /\ N >= M => estimateWithOneMore = estimate + 1
                /\ N < M => estimateWithOneMore = 0
        IN  \E N \in AllocationCallCounts(text) :
                /\ Holds(N, leaks,
                         estimateMemoryUsage(text \o OneMoreAllocation)
                             .memoryLeaks)
                /\ Holds(N, leaks3,
                         estimateMemoryUsage3(text \o OneMoreAllocation)
                             .memoryLeaks)

\* C20 as stated: in every variant the explanation has a leak warning
\* exactly when the text has more allocation calls (malloc, calloc,
\* realloc) than free calls, also when there are free calls.
C20_Original_WarningIffMoreAllocations ==
    (\/ call = "analyze" /\ ~out.empty
     \/ call \in {"generateExplanation", "explainMemoryManagement"}) =>
        LET text == trim(code)
            allocations ==
                matchCount(CallOf(Word.malloc), text)
                + matchCount(CallOf(Word.calloc), text)
                + matchCount(CallOf(Word.realloc), text)
            frees == matchCount(CallOf(Word.free), text)
        IN  (\E i \in 1..Len(SectionsOut) : SectionsOut[i].leakWarning)
                <=> allocations > frees

----------------------------------------------------------------------------
\* The summary of the first AdvancedCodeExplainer (lines 17-351).

\* A literal of a pattern with the flag i: each letter in either case.
LitI(chars) ==
    LET lower == <<"a", "b", "c", "d", "e", "f", "g", "h", "i", "j", "k",
                   "l", "m", "n", "o", "p", "q", "r", "s", "t", "u", "v",
                   "w", "x", "y", "z">>
        upper == <<"A", "B", "C", "D", "E", "F", "G", "H", "I", "J", "K",
                   "L", "M", "N", "O", "P", "Q", "R", "S", "T", "U", "V",
                   "W", "X", "Y", "Z">>
        bothCases(c) ==
            {c} \cup {upper[k] : k \in {j \in 1..Len(lower) : lower[j] = c}}
                \cup {lower[k] : k \in {j \in 1..Len(upper) : upper[j] = c}}
    IN  << [kind |-> "lit", set |-> {}, negated |-> FALSE, min |-> 0,
            max |-> 0, lazy |-> FALSE,
            alts |-> [i \in 1..Len(chars) |-> bothCases(chars[i])]] >>

\* The patterns generateAdvancedSummary tests (lines 40-46 and 69-70).
\* .* is any characters with the flag s and any but a line end without it.
detectPatterns(text) ==
    LET any == Class({}, TRUE, 0, -1, FALSE)
        anyInLine == Class({"\n"}, TRUE, 0, -1, FALSE)
        typedefStruct == Lit(<<"t", "y", "p", "e", "d", "e", "f", " ", "s",
                               "t", "r", "u", "c", "t">>)
        \* /(\w+)\s*\([^)]*\).*\1\s*\(/s: a word, an argument list, and
        \* later the same word before '('
        isRecursive ==
            \E p \in 1..Len(text) : \E q \in p..Len(text) :
                /\ \A i \in p..q : text[i] \in WordChars
                /\ matchAt(Spaces0 \o Lit(<<"(">>) \o Not(")", 0)
                           \o Lit(<<")">>) \o any
                           \o Lit(SubSeq(text, p, q)) \o Spaces0
                           \o Lit(<<"(">>), text, q + 1) # 0
    IN  [isBST |->
             /\ test(typedefStruct \o any \o Lit(<<"N", "o", "d", "e">>) \o any
                     \o Lit(Word.left) \o any \o Lit(Word.right), text)
             /\ test(Lit(Word.insert) \o any \o Lit(Word.root) \o any
                     \o Lit(Word.value), text),
         isLinkedList |->
             test(typedefStruct \o any \o Lit(<<"N", "o", "d", "e">>) \o any
                  \o Lit(Word.next), text),
         isRecursive |-> isRecursive,
         hasTraversal |->
             test(Alt(<<LitI(Word.inorder), LitI(Word.preorder),
                        LitI(Word.postorder), LitI(Word.traverse)>>), text),
         hasSorting |->
             test(Alt(<<LitI(Word.sort), LitI(Word.bubble), LitI(Word.quick),
                        LitI(Word.merge), LitI(Word.selection)>>), text),
         hasSearching |->
             test(Alt(<<LitI(Word.search), LitI(Word.find),
                        LitI(Word.binary) \o anyInLine
                        \o LitI(Word.search)>>), text),
         hasDP |->
             test(Alt(<<LitI(Word.dp) \o Lit(<<"[">>),
                        LitI(Word.memo) \o Lit(<<"[">>),
                        LitI(Word.dynamic) \o anyInLine
                        \o LitI(Word.programming)>>), text),
         hasPointers |-> test(Lit(<<"*">>) \o Word1, text),
         hasStructs |-> test(Alt(<<typedefStruct, StructPattern>>), text)]

\* The sentences, by their first words.
generateAdvancedSummary_ListFirst(text) ==
    LET d == detectPatterns(text)
    IN  IF d.isLinkedList THEN "This implements a Linked List"
        ELSE IF d.isBST THEN "This implements a Binary Search Tree (BST)"
        ELSE IF d.hasSorting THEN "This implements a sorting algorithm"
        ELSE IF d.hasSearching THEN "This implements a searching algorithm"
        ELSE IF d.hasDP THEN "This uses Dynamic Programming"
        ELSE IF d.hasStructs /\ d.hasPointers /\ d.isRecursive
        THEN "This is an advanced C program"
        ELSE "This C program demonstrates core programming concepts"

generateAdvancedSummary(text) ==
    LET d == detectPatterns(text)
    IN  IF d.isBST THEN "This implements a Binary Search Tree (BST)"
        ELSE IF d.isLinkedList THEN "This implements a Linked List"
        ELSE IF d.hasSorting THEN "This implements a sorting algorithm"
        ELSE IF d.hasSearching THEN "This implements a searching algorithm"
        ELSE IF d.hasDP THEN "This uses Dynamic Programming"
        ELSE IF d.hasStructs /\ d.hasPointers /\ d.isRecursive
        THEN "This is an advanced C program"
        ELSE "This C program demonstrates core programming concepts"

\* The step of analyze (lines 20-36) that builds the summary; analyze
\* answers 'No code provided for analysis.' for a text that is empty once
\* trimmed.
summaryOfAnalyze ==
    /\ call' = "generateAdvancedSummary"
    /\ out' = IF Len(trim(code)) = 0 THEN "No code provided for analysis."
              ELSE generateAdvancedSummary(trim(code))
    /\ UNCHANGED code

\* The inputs: up to MaxSignals fragments, each with one of the signals.
MaxSignals == 3

SignalFragments ==
    << <<"t", "y", "p", "e", "d", "e", "f", " ", "s", "t", "r", "u", "c",
         "t", " ", "N", "o", "d", "e", " ", "{", " ", "s", "t", "r", "u",
         "c", "t", " ", "N", "o", "d", "e", " ", "*", "l", "e", "f", "t",
         ",", " ", "*", "r", "i", "g", "h", "t", ";", " ", "}", " ", "N",
         "o", "d", "e", ";", "\n">>,
       <<"t", "y", "p", "e", "d", "e", "f", " ", "s", "t", "r", "u", "c",
         "t", " ", "N", "o", "d", "e", " ", "{", " ", "s", "t", "r", "u",
         "c", "t", " ", "N", "o", "d", "e", " ", "*", "n", "e", "x", "t",
         ";", " ", "}", " ", "N", "o", "d", "e", ";", "\n">>,
       <<"N", "o", "d", "e", " ", "*", "i", "n", "s", "e", "r", "t", "(",
         "N", "o", "d", "e", " ", "*", "r", "o", "o", "t", ",", " ", "i",
         "n", "t", " ", "v", "a", "l", "u", "e", ")", " ", "{", "\n">>,
       <<"S", "o", "r", "t", "(", "a", ")", ";", "\n">>,
       <<"f", "i", "n", "d", "(", "a", ")", ";", "\n">>,
       <<"m", "e", "m", "o", "[", "0", "]", " ", "=", " ", "1", ";", "\n">>,
       <<"f", "(", "n", " ", "-", " ", "1", ")", ";", " ", "f", "(", "n",
         " ", "-", " ", "2", ")", ";", "\n">>,
       <<"s", "t", "r", "u", "c", "t", " ", "s", " ", "*", "p", ";", "\n">>,
       <<"i", "n", "t", " ", "x", ";", "\n">> >>

RECURSIVE SignalTexts(_, _)
SignalTexts(n, first) ==
    IF n = 0 THEN {<< >>}
    ELSE {<< >>}
         \cup UNION {{SignalFragments[i] \o t : t \in SignalTexts(n - 1, i)} :
                     i \in first..Len(SignalFragments)}

SummaryInit ==
    /\ Init
    /\ info = NoInfo
    /\ code \in SignalTexts(MaxSignals, 1)
    /\ call = "none"
    /\ out = << >>

SummaryNext == summaryOfAnalyze /\ UNCHANGED <<vars, info>>

SpecSummary == SummaryInit /\ [][SummaryNext]_allVars

\* C21: the summary of a text that is not empty is exactly one of the seven
\* sentences, the first in the order binary search tree, linked list,
\* sorting, searching, dynamic programming, struct + pointer + recursion,
\* default whose signals the text has; a text with the tree signals gets the
\* tree sentence whatever other signals it has.
C21_SummaryByPriority ==
    (call = "generateAdvancedSummary" /\ Len(trim(code)) > 0) =>
        LET d == detectPatterns(trim(code))
            signals ==
                <<d.isBST, d.isLinkedList, d.hasSorting, d.hasSearching,
                  d.hasDP, d.hasStructs /\ d.hasPointers /\ d.isRecursive,
                  TRUE>>
            sentences ==
                <<"This implements a Binary Search Tree (BST)",
                  "This implements a Linked List",
                  "This implements a sorting algorithm",
                  "This implements a searching algorithm",
                  "This uses Dynamic Programming",
                  "This is an advanced C program",
                  "This C program demonstrates core programming concepts">>
            first == CHOOSE k \in 1..7 :
                         signals[k] /\ \A j \in 1..(k - 1) : ~signals[j]
        IN  /\ Cardinality({k \in 1..7 : sentences[k] = out}) = 1
            /\ out = sentences[first]
            /\ d.isBST => out = sentences[1]

\* C21 witness: a text with the tree signals and the list signal has got
\* the tree sentence.
C21_Witness ==
    /\ call = "generateAdvancedSummary"
    /\ detectPatterns(trim(code)).isBST
    /\ detectPatterns(trim(code)).isLinkedList
    /\ out = "This implements a Binary Search Tree (BST)"

----------------------------------------------------------------------------
\* MainInterface: the Run, Step and Reset buttons over the component's one
\* MemoryManager.  code is the editor text the last Run click read, call
\* the last handler and out the lines of the console.

MaxConsoleLines == 8

\* The editor texts of the Run clicks.
RunTexts == SamplePrograms \cup {<< >>, <<" ", "\n">>}

\* handleRunCode started by a click that finds the text in the editor,
\* without the reset() before executeCode.
handleRunCode_NoReset(text) ==
    /\ Len(out) < MaxConsoleLines
    /\ call' = "handleRunCode"
    /\ code' = text
    /\ UNCHANGED info
    /\ IF Len(trim(text)) = 0
       THEN /\ out' = Append(out, "Error: Please enter some C code to run.")
            /\ UNCHANGED vars
       ELSE LET parseResult == parse(text)
            IN  IF ~parseResult.success
                THEN /\ out' = out \o <<"Parsing C code...",
                                        IF parseResult.error = "Empty code"
                                        THEN "Parse Error: Empty code"
                                        ELSE "Parse Error: No main function found">>
                     /\ UNCHANGED vars
                ELSE /\ op' = "allocateStack"
                     /\ UNCHANGED <<heapBlocks, currentHeapPointer>>
                     /\ IF currentStackPointer + 1024 > stackSize
                        THEN /\ result' = Throw("Stack overflow")
                             /\ UNCHANGED <<stackFrames, currentStackPointer>>
                             /\ out' = out \o
                                  <<"Parsing C code...",
                                    "Code parsed successfully. Starting execution...",
                                    "Executing main function...",
                                    "Error: Error: Stack overflow">>
                        ELSE /\ result' = ReturnBool(TRUE)
                             /\ stackFrames' =
                                    Append(stackFrames,
                                           [name |-> "main", size |-> 1024,
                                            variables |-> EmptyMap,
                                            startAddress |-> currentStackPointer])
                             /\ currentStackPointer' = currentStackPointer + 1024
                             /\ out' = out \o
                                  <<"Parsing C code...",
                                    "Code parsed successfully. Starting execution...",
                                    "Executing main function...",
                                    "Stack frame allocated for main()",
                                    "Execution completed.">>

\* handleRunCode started by a click that finds the text in the editor: the
\* parse, then reset() and executeCode (allocateStack('main', 1024)) inside
\* the try, an exception ending in the catch's console line.
handleRunCode(text) ==
    /\ Len(out) < MaxConsoleLines
    /\ call' = "handleRunCode"
    /\ code' = text
    /\ UNCHANGED info
    /\ IF Len(trim(text)) = 0
       THEN /\ out' = Append(out, "Error: Please enter some C code to run.")
            /\ UNCHANGED vars
       ELSE LET parseResult == parse(text)
            IN  IF ~parseResult.success
                THEN /\ out' = out \o <<"Parsing C code...",
                                        IF parseResult.error = "Empty code"
                                        THEN "Parse Error: Empty code"
                                        ELSE "Parse Error: No main function found">>
                     /\ UNCHANGED vars
                ELSE \* reset(), then allocateStack on the state it left
                     /\ op' = "allocateStack"
                     /\ heapBlocks' = << >>
                     /\ currentHeapPointer' = 0
                     /\ IF 0 + 1024 > stackSize
                        THEN /\ result' = Throw("Stack overflow")
                             /\ stackFrames' = << >>
                             /\ currentStackPointer' = 0
                             /\ out' = out \o
                                  <<"Parsing C code...",
                                    "Code parsed successfully. Starting execution...",
                                    "Executing main function...",
                                    "Error: Error: Stack overflow">>
                        ELSE /\ result' = ReturnBool(TRUE)
                             /\ stackFrames' =
                                    <<[name |-> "main", size |-> 1024,
                                       variables |-> EmptyMap,
                                       startAddress |-> 0]>>
                             /\ currentStackPointer' = 0 + 1024
                             /\ out' = out \o
                                  <<"Parsing C code...",
                                    "Code parsed successfully. Starting execution...",
                                    "Executing main function...",
                                    "Stack frame allocated for main()",
                                    "Execution completed.">>

\* handleStepCode: one console line.
handleStepCode ==
    /\ Len(out) < MaxConsoleLines
    /\ call' = "handleStepCode"
    /\ out' = Append(out, "Step execution not yet implemented.")
    /\ UNCHANGED <<vars, code, info>>

\* handleResetCode: the console emptied, then reset().
handleResetCode ==
    /\ call' = "handleResetCode"
    /\ out' = << >>
    /\ reset
    /\ UNCHANGED <<code, info>>

RunInit == Init /\ info = NoInfo /\ NoAnalysis

RunNext ==
    \/ \E text \in RunTexts : handleRunCode(text)
    \/ handleStepCode
    \/ handleResetCode

SpecRun == RunInit /\ [][RunNext]_allVars

\* C22: after any Run and Reset clicks the simulator holds at most one
\* frame: the 1024-byte frame 'main' at address 0 when a Run has succeeded
\* since the last Reset and none otherwise; stackUsed is 0 or 1024 and no
\* allocateStack of a Run has thrown.
C22_AtMostTheMainFrame ==
    LET ran == \E i \in 1..Len(out) : out[i] = "Execution completed."
    IN  /\ Len(stackFrames) <= 1
        /\ ran => /\ Len(stackFrames) = 1
                  /\ stackFrames[1].name = "main"
                  /\ stackFrames[1].size = 1024
        /\ ~ran => stackFrames = << >>
        /\ call = "handleResetCode" => stackFrames = << >>
        /\ getMemoryInfo.stackUsed \in {0, 1024}
        /\ ~result.threw
        /\ \A i \in 1..Len(out) : out[i] # "Error: Error: Stack overflow"

\* C22 witness: a second Run has succeeded without a Reset between and
\* the simulator holds the one frame.
C22_Witness ==
    /\ call = "handleRunCode"
    /\ Cardinality({i \in 1..Len(out) : out[i] = "Execution completed."}) = 2
    /\ Len(stackFrames) = 1
    /\ getMemoryInfo.stackUsed = 1024

----------------------------------------------------------------------------
\* The cursor of the parser.

\* The '{' at which parseProgram's first parseFunction calls parseBlock, 0
\* when there is none.
FirstBlock(tokens) ==
    LET start == programIncludes(tokens, 1, << >>).pos
        functions == {i \in start..Len(tokens) : isFunction(tokens, i)}
    IN  IF functions = {} THEN 0
        ELSE LET f == CHOOSE i \in functions : \A j \in functions : i <= j
                 afterName == IF f + 1 <= Len(tokens) THEN f + 2 ELSE f + 1
                 brace == skipUntil(tokens, afterName, "{")
             IN  IF brace <= Len(tokens) THEN brace ELSE 0

\* The position of the '}' that balances the '{' at b, 0 when there is none.
Balancing(tokens, b) ==
    LET depth(m) ==
            Cardinality({k \in b..m : Is(tokens[k], "{")})
            - Cardinality({k \in b..m : Is(tokens[k], "}")})
        closing == {m \in b..Len(tokens) : depth(m) = 0}
    IN  IF closing = {} THEN 0
        ELSE CHOOSE m \in closing : \A n \in closing : m <= n

\* C23 (as stated): parseBlock consumes the tokens up to and including the
\* '}' that balances the block's '{'.
C23_Original_BlockEndsAtBalancingBrace ==
    call = "parse" =>
        LET tokens == tokenize(code)
            b == FirstBlock(tokens)
        IN  (b # 0 /\ Balancing(tokens, b) # 0) =>
                parseBlock(tokens, b).pos = Balancing(tokens, b) + 1

\* C24 (as stated): a statement of a block is classified by its leading
\* token and its parser consumes the tokens up to and including the next
\* ';', or to the end when there is none.
C24_Original_StatementEndsAtSemicolon ==
    call = "parse" =>
        LET tokens == tokenize(code)
            b == FirstBlock(tokens)
            i == b + 1
            semicolons == {k \in i..Len(tokens) : Is(tokens[k], ";")}
            end == IF semicolons = {} THEN Len(tokens) + 1
                   ELSE 1 + CHOOSE k \in semicolons :
                                \A j \in semicolons : k <= j
            stmt == parseStatement(tokens, i)
        IN  (b # 0 /\ isStatement(tokens, i)) =>
                /\ stmt.node.type =
                       IF Is(tokens[i], "printf") THEN "PrintfStatement"
                       ELSE IF Is(tokens[i], "return") THEN "ReturnStatement"
                       ELSE IF \E k \in {"int", "char", "float", "double"} :
                                   Is(tokens[i], k)
                            THEN "Declaration"
                       ELSE "ExpressionStatement"
                /\ stmt.pos = end

\* C25: the cursor only moves forward and never leaves the tokens: every
\* parsing method applied where its caller applies it, and so every
\* iteration of the loops of parseProgram and parseBlock, ends at least one
\* token further and at most at tokens.length; a token that does not open a
\* function is passed by exactly one step; parseProgram ends at
\* tokens.length (the position after the last token).
C25_CursorMovesForwardToTheEnd ==
    call = "parse" =>
        LET tokens == tokenize(code)
            end == Len(tokens) + 1
            Forward(i, pos) == i < pos /\ pos <= end
        IN  /\ \A i \in 1..Len(tokens) :
                /\ Is(tokens[i], "#include") =>
                       Forward(i, parseInclude(tokens, i).pos)
                /\ isFunction(tokens, i) =>
                       Forward(i, parseFunction(tokens, i).pos)
                /\ Is(tokens[i], "{") =>
                       Forward(i, parseBlock(tokens, i).pos)
                /\ isStatement(tokens, i) =>
                       Forward(i, parseStatement(tokens, i).pos)
                /\ ~isFunction(tokens, i) =>
                       programFunctions(tokens, i, << >>) =
                           programFunctions(tokens, i + 1, << >>)
            /\ programIncludes(tokens, 1, << >>).pos \in 1..end
            /\ parseProgram(tokens).pos = end
            /\ out.success => parseProgram(tokens).node = out.ast

\* C25 witness: a successful parse whose first function ended before the
\* last token, the rest passed token by token.
C25_Witness ==
    /\ call = "parse"
    /\ out.success
    /\ FirstBlock(tokenize(code)) # 0
    /\ parseBlock(tokenize(code), FirstBlock(tokenize(code))).pos
           <= Len(tokenize(code))
    /\ parseProgram(tokenize(code)).pos = Len(tokenize(code)) + 1

----------------------------------------------------------------------------
\* The heap and the counters of the simulator.

\* C26 (as stated): every block can be freed through the address its
\* allocateHeap returned: a deallocateHeap call with the address of a block
\* that is still allocated takes one block off the leak count, so one call
\* for each returned address leaves no leak and heapUsed 0.
C26_Original_EveryBlockFreedByItsAddress ==
    [][\A a \in AddressArgs :
         (/\ deallocateHeap(a)
          /\ \E i \in 1..Len(heapBlocks) :
                 heapBlocks[i].address = a /\ heapBlocks[i].allocated) =>
             Len(filterAllocated(heapBlocks')) =
                 Len(filterAllocated(heapBlocks)) - 1
      ]_vars

\* C27: deallocateHeap with the address of a block that is already freed
\* returns true and changes nothing.
C27_SecondFreeIsSilent ==
    [][\A a \in AddressArgs :
         (/\ deallocateHeap(a)
          /\ \E i \in 1..Len(heapBlocks) :
                 heapBlocks[i].address = a /\ ~heapBlocks[i].allocated) =>
             /\ ~result'.threw
             /\ result'.bool
             /\ UNCHANGED state
      ]_vars

\* C27 witness: deallocateHeap has returned true and both blocks of the
\* instance, at different addresses, are freed.
C27_Witness ==
    /\ op = "deallocateHeap"
    /\ result.bool
    /\ Len(heapBlocks) = 2
    /\ heapBlocks[1].address # heapBlocks[2].address
    /\ \A i \in 1..2 : ~heapBlocks[i].allocated

\* C28: reset() leaves the fields as the constructor leaves them, so the
\* operations after it answer as on a new instance: the snapshot is that of
\* a new instance, and the first frame and the first block after it start
\* at address 0.
C28_ResetGivesFreshState ==
    /\ op = "reset" =>
           /\ stackFrames = << >>
           /\ heapBlocks = << >>
           /\ currentStackPointer = 0
           /\ currentHeapPointer = 0
           /\ getMemoryInfo = [stackUsed |-> 0, stackTotal |-> 8192,
                               heapUsed |-> 0, heapTotal |-> 65536,
                               activeFrames |-> 0, leaks |-> 0]
    /\ Len(stackFrames) >= 1 => stackFrames[1].startAddress = 0
    /\ Len(heapBlocks) >= 1 => heapBlocks[1].address = 0

\* C28 witness: reset() has returned and the snapshot counts nothing.
C28_Witness ==
    /\ op = "reset"
    /\ getMemoryInfo.leaks = 0
    /\ getMemoryInfo.heapUsed = 0
    /\ currentHeapPointer = 0
    /\ currentStackPointer = 0

\* The simulator called with sizes of either sign: allocateStack and
\* allocateHeap take any number.
MaxFrames == 3

SignedSizeArgs == {-64, 0, 64}

SignedNext ==
    /\ \/ reset
       \/ \E s \in SignedSizeArgs :
              /\ Len(stackFrames) < MaxFrames
              /\ allocateStack("main", s)
       \/ deallocateStack
       \/ \E s \in SignedSizeArgs :
              /\ Len(heapBlocks) < MaxBlocks
              /\ allocateHeap(s)
       \/ \E a \in AddressArgs : deallocateHeap(a)
    /\ UNCHANGED <<info, analysisVars>>

SpecSigned == MemoryInit /\ [][SignedNext]_allVars

\* C29 (as stated): whatever numbers are passed as sizes, zero and negative
\* ones included, the counters stay within their capacities: stackUsed in
\* 0..stackTotal, the heap pointer in 0..heapTotal and heapUsed in
\* 0..heapTotal.
C29_Original_CountersWithinCapacity ==
    /\ 0 <= getMemoryInfo.stackUsed
    /\ getMemoryInfo.stackUsed <= getMemoryInfo.stackTotal
    /\ 0 <= currentHeapPointer
    /\ currentHeapPointer <= getMemoryInfo.heapTotal
    /\ 0 <= getMemoryInfo.heapUsed
    /\ getMemoryInfo.heapUsed <= getMemoryInfo.heapTotal

----------------------------------------------------------------------------
\* The explain page (src/unnamed/part_002).  code is the text of the input
\* area, call the handler of the last click, and out the rest of the page:
\* the explanation panel, the status line, the memory statistics, and the
\* timers that handleExplainCode has set and that have not fired, each with
\* the text its callback has captured, in the order they were set (all have
\* the same delay of 1000 ms, so they fire in that order).

MaxTimers == 2

Page(panel, statusType, statusText, stats, timers) ==
    [panel |-> panel, statusType |-> statusType, statusText |-> statusText,
     stats |-> stats, timers |-> timers]

\* The example program of handleLoadExample, lines 102-114.
ExampleCode ==
    <<"#", "i", "n", "c", "l", "u", "d", "e", " ", "<", "s", "t", "d", "i",
      "o", ".", "h", ">", "\n", "\n", "i", "n", "t", " ", "m", "a", "i",
      "n", "(", ")", " ", "{", "\n", " ", " ", " ", " ", "i", "n", "t",
      " ", "x", " ", "=", " ", "1", "0", ";", "\n", " ", " ", " ", " ",
      "i", "n", "t", " ", "y", " ", "=", " ", "2", "0", ";", "\n", " ",
      " ", " ", " ", "i", "n", "t", " ", "s", "u", "m", " ", "=", " ", "x",
      " ", "+", " ", "y", ";", "\n", " ", " ", " ", " ", "\n", " ", " ",
      " ", " ", "p", "r", "i", "n", "t", "f", "(", "\"", "F", "i", "r",
      "s", "t", " ", "n", "u", "m", "b", "e", "r", ":", " ", "%", "d",
      "\\", "n", "\"", ",", " ", "x", ")", ";", "\n", " ", " ", " ", " ",
      "p", "r", "i", "n", "t", "f", "(", "\"", "S", "e", "c", "o", "n",
      "d", " ", "n", "u", "m", "b", "e", "r", ":", " ", "%", "d", "\\",
      "n", "\"", ",", " ", "y", ")", ";", "\n", " ", " ", " ", " ", "p",
      "r", "i", "n", "t", "f", "(", "\"", "S", "u", "m", ":", " ", "%",
      "d", "\\", "n", "\"", ",", " ", "s", "u", "m", ")", ";", "\n", " ",
      " ", " ", " ", "\n", " ", " ", " ", " ", "r", "e", "t", "u", "r",
      "n", " ", "0", ";", "\n", "}">>

\* The texts the input area holds when Explain is clicked.
PageTexts ==
    {<< >>, <<" ", "\n">>,
     Fragments[3] \o Fragments[13],
     Fragments[3] \o Fragments[4] \o Fragments[13],
     Fragments[1] \o Fragments[3] \o Fragments[12] \o Fragments[13],
     ExampleCode}

\* handleExplainCode, lines 49-80: a blank text ends in the error status;
\* any other text sets the processing status and a timer.
handleExplainCode(text) ==
    /\ call' = "handleExplainCode"
    /\ code' = text
    /\ IF Len(trim(text)) = 0
       THEN out' = [out EXCEPT
                        !.statusType = "error",
                        !.statusText = "Please enter some C code to explain"]
       ELSE /\ Len(out.timers) < MaxTimers
            /\ out' = [out EXCEPT
                           !.statusType = "processing",
                           !.statusText = "Analyzing your code...",
                           !.timers = Append(@, text)]

\* The callback of the earliest timer, lines 67-78: explain and
\* estimateMemoryUsage of the captured text, shown by displayExplanations,
\* updateMemoryStats and updateStatus.  Neither call throws.
explainTimeout ==
    /\ Len(out.timers) > 0
    /\ LET text == Head(out.timers)
       IN  out' = Page(explanationOf(trim(text)), "complete",
                       "Code analysis complete",
                       estimateMemoryUsage(trim(text)), Tail(out.timers))
    /\ UNCHANGED <<code, call>>

\* handleClearCode, lines 82-96: the input emptied, the welcome message,
\* the ready status and resetMemoryStats; the timers are left as they are.
handleClearCode ==
    /\ call' = "handleClearCode"
    /\ code' = << >>
    /\ out' = Page(<<Block("Welcome to CodeAnatomy", "welcome")>>, "ready",
                   "Ready to explain",
                   [stackUsed |-> 0, heapUsed |-> 0, activeFrames |-> 0,
                    memoryLeaks |-> 0],
                   out.timers)

\* handleLoadExample, lines 98-119: the example put in the input area and
\* the ready status; the panel, the statistics and the timers stay.
handleLoadExample ==
    /\ call' = "handleLoadExample"
    /\ code' = ExampleCode
    /\ out' = [out EXCEPT
                   !.statusType = "ready",
                   !.statusText = "Example loaded - click Explain Code"]

\* The page as the template gives it, before any click.
PageInit ==
    /\ Init
    /\ info = NoInfo
    /\ code = << >>
    /\ call = "none"
    /\ out = Page(<<Block("template", "template")>>, "template", "template",
                  [stackUsed |-> 0, heapUsed |-> 0, activeFrames |-> 0,
                   memoryLeaks |-> 0],
                  << >>)

PageNext ==
    /\ \/ \E text \in PageTexts : handleExplainCode(text)
       \/ explainTimeout
       \/ handleClearCode
       \/ handleLoadExample
    /\ UNCHANGED <<vars, info>>

SpecPage == PageInit /\ [][PageNext]_allVars

\* C30 (as stated): once Clear has been clicked, the panel, the status and
\* the memory statistics stay cleared until the next Explain click,
\* whatever timers fire in between.
C30_Original_ClearedUntilNextExplain ==
    call = "handleClearCode" =>
        /\ out.panel = <<Block("Welcome to CodeAnatomy", "welcome")>>
        /\ out.statusType = "ready"
        /\ out.statusText = "Ready to explain"
        /\ out.stats = [stackUsed |-> 0, heapUsed |-> 0, activeFrames |-> 0,
                        memoryLeaks |-> 0]

=============================================================================
